---- MODULE Spec2Model ----
(***************************************************************************)
(* A model of the PCB trace extractor (src/trace_extractor.py and its      *)
(* revision src/backend/trace_extractor.py): the object model, the         *)
(* connectivity test, the two graph strategies, the cached path finder,    *)
(* the loaders and the queries built on them.                              *)
(*                                                                         *)
(* Numbers.  Coordinates and the length field are integers counting        *)
(* 1e-6 mil; millimetre values (edge weights, results) are integers        *)
(* counting 1e-10 mm, so that 0.0254 mm per mil is the factor 254 and the  *)
(* two weight constants of the source are whole numbers.                   *)
(*                                                                         *)
(* Geometry.  The boards of the model are laid out on the line y = 0, so a *)
(* point is its x coordinate, math.hypot is the absolute difference and a  *)
(* shape is the interval it covers on that line.                           *)
(***************************************************************************)
EXTENDS Integers, Sequences, FiniteSets, TLC

VARIABLES
    rev,               \* which revision of PCBTraceExtractor the instance is
    objects,           \* self.objects
    pads,              \* self.pads
    pad_cache,         \* self.pad_cache
    connection_cache,  \* self.connection_cache
    path_cache,        \* self.path_cache (backend revision, created lazily)
    ret,               \* what the last call did and returned
    nloads,            \* loads made so far
    ncalls,            \* queries made so far
    answered,          \* what extract_traces_between_pads returned to each argument
                       \* list the first time it was called with it since the last load
    has_path_cache,    \* hasattr(self, 'path_cache')
    loading,           \* the load that is under way in another thread, if any
    threads,           \* the queries that are under way in threads, step by step
    pcb_data,          \* self.pcb_data (backend revision)
    pcb_data_store,    \* pcb_data_store of backend/main.py
    shared_store,      \* pcb_data_store of backend/dependencies.py
    active_tasks,      \* active_tasks of backend/api/board_routes.py
    background,        \* the background tasks added and not yet run
    now                \* int(time.time())

\* The extractor, and the web application around it
extractor == <<rev, objects, pads, pad_cache, connection_cache, path_cache, nloads, ncalls,
               answered, has_path_cache, loading, threads, pcb_data>>
server == <<pcb_data_store, shared_store, active_tasks, background, now>>

vars == <<rev, objects, pads, pad_cache, connection_cache, path_cache, ret, nloads, ncalls,
          answered, has_path_cache, loading, threads, pcb_data, pcb_data_store,
          shared_store, active_tasks, background, now>>

\* ------------------------------------------------------------------ bounds

MaxLoads == 2
MaxCalls == 2

\* ------------------------------------------------------------ configuration

Mil == 1000 * 1000                 \* one mil, in length units of 1e-6 mil

MILS_TO_MM == 254                  \* 0.0254 mm per mil, in 1e-10 mm per 1e-6 mil
CONNECT_TOLERANCE == 2000000       \* 2.0 mils
POINT_ROUNDING_PRECISION == 2      \* decimal places (of a mil) points are rounded to
MAX_TRACK_WEIGHT == 100000         \* 0.00001 mm
DEFAULT_WEIGHT == 1000000          \* 0.0001 mm
MIN_LENGTH == 1                    \* 1e-6 mil: a track or arc is kept when longer

\* ------------------------------------------------------------------ values

None == <<>>
Some(v) == <<v>>
IsNone(r) == r = <<>>
Value(r) == r[1]

Abs(n) == IF n < 0 THEN -n ELSE n
Max2(a, b) == IF a >= b THEN a ELSE b
Min2(a, b) == IF a <= b THEN a ELSE b

RECURSIVE Pow10(_)
Pow10(k) == IF k = 0 THEN 1 ELSE 10 * Pow10(k - 1)

RECURSIVE SumSeq(_)
SumSeq(s) == IF s = <<>> THEN 0 ELSE Head(s) + SumSeq(Tail(s))

\* ------------------------------------------------------------ object model

Pad(designator, pad_number, net_name, location, layer, width, height, hole_size) ==
    [type |-> "Pad", designator |-> designator, pad_number |-> pad_number,
     net_name |-> net_name, length |-> 0, location |-> location, layer |-> layer,
     width |-> width, height |-> height, hole_size |-> hole_size]

\* A Track has no width attribute until some code sets one.
Track(start, end, net_name, layer, length) ==
    [type |-> "Track", net_name |-> net_name, start |-> start, end |-> end,
     layer |-> layer, length |-> length]

\* Arcs of the model are degenerate (radius 0): their shape is the chord.
Arc(radius, start, end, net_name, layer, length) ==
    [type |-> "Arc", net_name |-> net_name, radius |-> radius, start |-> start,
     end |-> end, layer |-> layer, length |-> length]

Via(location, net_name, from_layer, to_layer, hole_size) ==
    [type |-> "Via", net_name |-> net_name, length |-> 0, location |-> location,
     from_layer |-> from_layer, to_layer |-> to_layer, hole_size |-> hole_size]

IsPad(o) == o.type = "Pad"
IsVia(o) == o.type = "Via"
IsTrackOrArc(o) == o.type \in {"Track", "Arc"}

endpoints(o) ==
    IF o.type \in {"Pad", "Via"} THEN <<o.location>> ELSE <<o.start, o.end>>

\* get_layers: the set of layers, or the sentinel "ALL" (all = TRUE).
get_layers(o) ==
    CASE o.type = "Pad" -> IF o.hole_size > 0 THEN [all |-> TRUE, set |-> {}]
                           ELSE [all |-> FALSE, set |-> {o.layer}]
      [] o.type = "Via" -> [all |-> TRUE, set |-> {}]
      [] OTHER          -> [all |-> FALSE, set |-> {o.layer}]

LayersCompatible(l1, l2) == l1.all \/ l2.all \/ (l1.set \cap l2.set) # {}

\* get_geometry on the line y = 0: the interval <<lo, hi>> the shape covers.
get_geometry(o) ==
    CASE o.type = "Pad" ->
           LET w2 == o.width \div 2
               h2 == o.height \div 2
               radius == IF o.hole_size > 0
                         THEN Max2(Max2(w2, h2), o.hole_size \div 2)
                         ELSE w2
           IN IF o.hole_size > 0 /\ radius <= 0 THEN <<0, 0>>
              ELSE <<o.location - radius, o.location + radius>>
      [] o.type = "Via" ->
           LET radius == o.hole_size \div 2
           IN IF radius <= 0 THEN <<o.location, o.location>>
              ELSE <<o.location - radius, o.location + radius>>
      [] OTHER -> <<Min2(o.start, o.end), Max2(o.start, o.end)>>

\* geom1.buffer(t).intersects(geom2.buffer(t)) for two intervals of the line.
BufferedIntersect(g1, g2, t) == g1[1] - t <= g2[2] + t /\ g2[1] - t <= g1[2] + t

is_same_net(a, b) == a.net_name = b.net_name

is_connected(a, b, tolerance) ==
    IF ~is_same_net(a, b) THEN FALSE
    ELSE IF ~LayersCompatible(get_layers(a), get_layers(b)) THEN FALSE
    ELSE IF \E i \in DOMAIN endpoints(a) : \E j \in DOMAIN endpoints(b) :
               Abs(endpoints(a)[i] - endpoints(b)[j]) <= tolerance
         THEN TRUE
    ELSE BufferedIntersect(get_geometry(a), get_geometry(b), tolerance \div 10)

\* round(c, POINT_ROUNDING_PRECISION) for a coordinate c >= 0 that is not
\* halfway between two grid values.
round_point(point) ==
    LET grain == Mil \div Pow10(POINT_ROUNDING_PRECISION)
    IN ((point + grain \div 2) \div grain) * grain

\* Python's __eq__ of the four classes (equal objects are one graph node).
SameObject(a, b) ==
    /\ a.type = b.type
    /\ CASE a.type = "Pad" -> a.designator = b.designator /\ a.pad_number = b.pad_number
         [] a.type = "Via" -> /\ round_point(a.location) = round_point(b.location)
                              /\ a.net_name = b.net_name
         [] a.type = "Track" ->
              /\ {round_point(a.start), round_point(a.end)}
                   = {round_point(b.start), round_point(b.end)}
              /\ a.layer = b.layer /\ a.net_name = b.net_name
         [] OTHER ->
              /\ {round_point(a.start), round_point(a.end)}
                   = {round_point(b.start), round_point(b.end)}
              /\ a.radius = b.radius
              /\ a.layer = b.layer /\ a.net_name = b.net_name

\* ------------------------------------------------------------------ graphs

RoundedEndpoints(o) == {round_point(endpoints(o)[i]) : i \in DOMAIN endpoints(o)}

\* A variant that takes a Track's or Arc's length as it is, however short.
LengthAsWeight(obj1, obj2) ==
    IF (IsPad(obj1) /\ IsTrackOrArc(obj2)) \/ (IsPad(obj2) /\ IsTrackOrArc(obj1))
    THEN MAX_TRACK_WEIGHT
    ELSE IF IsTrackOrArc(obj1) THEN obj1.length * MILS_TO_MM
    ELSE IF IsTrackOrArc(obj2) THEN obj2.length * MILS_TO_MM
    ELSE DEFAULT_WEIGHT

\* The weight the graph builders give the edge obj1 -- obj2 (obj1 first in net_objs).
EdgeWeight(obj1, obj2) ==
    IF (IsPad(obj1) /\ IsTrackOrArc(obj2)) \/ (IsPad(obj2) /\ IsTrackOrArc(obj1))
    THEN MAX_TRACK_WEIGHT
    ELSE IF IsTrackOrArc(obj1) THEN Max2(obj1.length * MILS_TO_MM, MAX_TRACK_WEIGHT)
    ELSE IF IsTrackOrArc(obj2) THEN Max2(obj2.length * MILS_TO_MM, MAX_TRACK_WEIGHT)
    ELSE DEFAULT_WEIGHT

\* A graph over the nodes 1..Len(net_objs): n nodes and the edges <<i, j, weight>>,
\* i < j.
GraphOn(net_objs, linked) ==
    [n |-> Len(net_objs),
     edges |-> {<<e[1], e[2], EdgeWeight(net_objs[e[1]], net_objs[e[2]])>> : e \in linked}]

\* Objects are linked when they share a rounded end point.
build_accurate_graph(net_objs) ==
    LET n == Len(net_objs)
    IN GraphOn(net_objs,
               {e \in (1..n) \X (1..n) :
                  /\ e[1] < e[2]
                  /\ (RoundedEndpoints(net_objs[e[1]])
                        \cap RoundedEndpoints(net_objs[e[2]])) # {}})

\* Objects are linked when is_connected says so.
build_bidirectional_graph(net_objs) ==
    LET n == Len(net_objs)
    IN GraphOn(net_objs,
               {e \in (1..n) \X (1..n) :
                  /\ e[1] < e[2]
                  /\ is_connected(net_objs[e[1]], net_objs[e[2]], CONNECT_TOLERANCE)})

\* The edges at node v, as <<neighbour, weight>>.
Neighbours(G, v) ==
    {<<e[1], e[3]>> : e \in {e \in G.edges : e[2] = v}}
    \cup {<<e[2], e[3]>> : e \in {e \in G.edges : e[1] = v}}

Least(S) == CHOOSE x \in S : \A y \in S : x <= y

\* Dijkstra's distances from a source, as the set of <<node, distance>> of the
\* nodes reached: D after k more rounds of relaxing every edge.
RECURSIVE Relax(_, _, _)
Relax(G, D, k) ==
    IF k = 0 THEN D
    ELSE LET Via1(v, p) == {p[2] + nb[2] : nb \in {nb \in Neighbours(G, v) : nb[1] = p[1]}}
             Cands(v) == UNION {Via1(v, p) : p \in D}
                         \cup {p[2] : p \in {p \in D : p[1] = v}}
             next == {<<v, Least(Cands(v))>> : v \in {v \in 1..G.n : Cands(v) # {}}}
         IN IF next = D THEN D ELSE Relax(G, next, k - 1)

Distances(G, src) == Relax(G, {<<src, 0>>}, G.n)

\* Every minimum-weight path from src to the node of p = <<node, distance>>
\* that passes through no node twice, nor through a node of seen.
RECURSIVE PathsTo(_, _, _, _, _)
PathsTo(G, D, src, p, seen) ==
    IF p[1] = src THEN {<<src>>}
    ELSE UNION {{Append(path, p[1]) : path \in PathsTo(G, D, src, q, seen \cup {p[1]})} :
                  q \in {q \in D : /\ q[1] \notin seen \cup {p[1]}
                                   /\ \E nb \in Neighbours(G, p[1]) :
                                        nb[1] = q[1] /\ q[2] + nb[2] = p[2]}}

\* nx.shortest_path(G, source, target, weight='weight'): the minimum-weight
\* paths; which of several the library returns is not fixed by the source.
\* The empty set stands for NetworkXNoPath.
shortest_path(G, source, target) ==
    LET D == Distances(G, source)
        at == {p \in D : p[1] = target}
    IN UNION {PathsTo(G, D, source, p, {}) : p \in at}

\* A variant that leaves the arcs out of the sum.
calculate_path_length_tracks_only(path) ==
    LET tracks_in_path == SelectSeq(path, LAMBDA o : o.type = "Track")
        total_length_mils == SumSeq([i \in DOMAIN tracks_in_path |-> tracks_in_path[i].length])
    IN total_length_mils * MILS_TO_MM

calculate_path_length(path) ==
    LET tracks_in_path == SelectSeq(path, IsTrackOrArc)
        total_length_mils == SumSeq([i \in DOMAIN tracks_in_path |-> tracks_in_path[i].length])
    IN total_length_mils * MILS_TO_MM

\* ------------------------------------------------------------- board data

\* str(p['padNumber']): a JSON integer n is written "#n" in the board data.
str(v) ==
    CASE v = "#1" -> "1"
      [] v = "#2" -> "2"
      [] OTHER -> v

HasKeys(rec, keys) == keys \subseteq DOMAIN rec

\* dict.get(key, default)
Get(rec, key, default) == IF key \in DOMAIN rec THEN rec[key] ELSE default

RECURSIVE Flatten(_)
Flatten(ss) == IF ss = <<>> THEN <<>> ELSE Head(ss) \o Flatten(Tail(ss))

\* One step of a parsing loop: the record raised (bad), or built an object
\* that the loop keeps or leaves out.
Raised == [bad |-> TRUE]
Built(obj, keep) == [bad |-> FALSE, obj |-> obj, keep |-> keep]

JsonPadItem(c, p) ==
    IF ~HasKeys(p, {"padNumber", "netName", "location"}) THEN Raised
    ELSE LET pad == Pad(c.designator, str(p.padNumber), p.netName, p.location,
                        Get(p, "layer", Get(c, "layer", 1)),
                        Get(p, "width", 0), Get(p, "height", 0), Get(p, "holeSize", 0))
         IN Built(pad, pad.net_name # "")

JsonComponentItems(c) ==
    IF ~HasKeys(c, {"designator"}) THEN <<Raised>>
    ELSE LET ps == Get(c, "pads", <<>>)
         IN [i \in DOMAIN ps |-> JsonPadItem(c, ps[i])]

JsonTrackItem(t) ==
    IF ~HasKeys(t, {"start", "end", "netName", "layer", "length"}) THEN Raised
    ELSE LET track == Track(t.start, t.end, t.netName, t.layer, t.length)
         IN Built(track, track.net_name # "" /\ track.length > MIN_LENGTH)

JsonArcItem(a) ==
    IF ~HasKeys(a, {"center", "radius", "startAngle", "endAngle", "start", "end",
                    "netName", "layer", "length"}) THEN Raised
    ELSE LET arc == Arc(a.radius, a.start, a.end, a.netName, a.layer, a.length)
         IN Built(arc, arc.net_name # "" /\ arc.length > MIN_LENGTH)

JsonViaItem(v) ==
    IF ~HasKeys(v, {"location", "netName", "fromLayer", "toLayer"}) THEN Raised
    ELSE LET via == Via(v.location, v.netName, v.fromLayer, v.toLayer, Get(v, "holeSize", 0))
         IN Built(via, via.net_name # "")

\* The four parsing loops of load_json_file / _process_pcb_data, in order.
JsonItems(data) ==
    LET cs == Get(data, "components", <<>>)
        ts == Get(data, "tracks", <<>>)
        as == Get(data, "arcs", <<>>)
        vs == Get(data, "vias", <<>>)
    IN Flatten([i \in DOMAIN cs |-> JsonComponentItems(cs[i])])
       \o [i \in DOMAIN ts |-> JsonTrackItem(ts[i])]
       \o [i \in DOMAIN as |-> JsonArcItem(as[i])]
       \o [i \in DOMAIN vs |-> JsonViaItem(vs[i])]

\* The items a loop gets through before one raises.
RECURSIVE UntilRaise(_)
UntilRaise(items) ==
    IF items = <<>> \/ Head(items).bad THEN <<>>
    ELSE <<Head(items)>> \o UntilRaise(Tail(items))

\* The state a run of the parsing loops leaves: the objects appended, the pads
\* among them, the pad cache filled on the way, and whether a record raised.
Parsed(items) ==
    LET done == UntilRaise(items)
        IsKept(it) == it.keep
        kept == SelectSeq(done, IsKept)
        objs == [i \in DOMAIN kept |-> kept[i].obj]
        ps == SelectSeq(objs, IsPad)
        ids == {<<ps[i].designator, ps[i].pad_number>> : i \in DOMAIN ps}
        Last(id) == ps[CHOOSE i \in DOMAIN ps :
                          /\ <<ps[i].designator, ps[i].pad_number>> = id
                          /\ \A j \in DOMAIN ps :
                               <<ps[j].designator, ps[j].pad_number>> = id => j <= i]
    IN [objects |-> objs, pads |-> ps, pad_cache |-> [id \in ids |-> Last(id)],
        raised |-> Len(done) < Len(items)]

\* import_from_altium_designer: records lacking a field are skipped.
AltiumLayer(layer) == IF layer = "Bottom Layer" THEN 2 ELSE 1

AltiumPadItems(comp) ==
    IF ~HasKeys(comp, {"Designator"}) THEN <<>>
    ELSE LET ps == SelectSeq(comp.pads,
                             LAMBDA p : HasKeys(p, {"Name", "X", "Y", "Layer", "Net"}))
         IN [i \in DOMAIN ps |->
               Built(Pad(comp.Designator, ps[i].Name, ps[i].Net, ps[i].X,
                         AltiumLayer(ps[i].Layer), 10 * Mil, 10 * Mil, 0), TRUE)]

AltiumTrackItems(tracks) ==
    LET ts == SelectSeq(tracks,
                        LAMBDA t : HasKeys(t, {"X1", "Y1", "X2", "Y2", "Layer", "Net"}))
    IN [i \in DOMAIN ts |->
          Built(Track(ts[i].X1, ts[i].X2, ts[i].Net, AltiumLayer(ts[i].Layer),
                      Abs(ts[i].X2 - ts[i].X1)), TRUE)]

AltiumItems(content) ==
    Flatten([i \in DOMAIN content.components |-> AltiumPadItems(content.components[i])])
    \o AltiumTrackItems(content.tracks)

\* ------------------------------------------------------------ the boards

JPad(padNumber, netName, location) ==
    [padNumber |-> padNumber, netName |-> netName, location |-> location,
     width |-> Mil \div 5, height |-> Mil \div 5]

JTrack(start, end, netName, layer, length) ==
    [start |-> start, end |-> end, netName |-> netName, layer |-> layer,
     length |-> length, width |-> 8 * Mil]

\* Net N1 joins U1.1 and U2.1 by two exact-endpoint routes: one track of
\* 3 mil, and two tracks of 0.5 mil each (the second starts 0.004 mil off the
\* grid point).  Net N2 joins U1.2 and U3.1 by two short exact-endpoint tracks
\* and by one long track that ends half a mil from either pad.
BoardMain ==
    [components |-> <<
        [designator |-> "U1", layer |-> 1,
         pads |-> <<JPad("#1", "N1", 0), JPad("2", "N2", 200 * Mil)>>],
        [designator |-> "U2", layer |-> 1, pads |-> <<JPad("1", "N1", 12 * Mil)>>],
        [designator |-> "U3", layer |-> 1, pads |-> <<JPad("1", "N2", 212 * Mil)>>]>>,
     tracks |-> <<
        JTrack(0, 12 * Mil, "N1", 1, 3 * Mil),
        JTrack(0, 6 * Mil, "N1", 1, Mil \div 2),
        JTrack(6 * Mil + 4000, 12 * Mil, "N1", 1, Mil \div 2),
        JTrack(200 * Mil, 206 * Mil, "N2", 1, Mil \div 2),
        JTrack(206 * Mil, 212 * Mil, "N2", 1, Mil \div 2),
        JTrack(200 * Mil + Mil \div 2, 212 * Mil - Mil \div 2, "N2", 1, 3 * Mil)>>]

\* U1.1 and U2.1 are joined only within the tolerance; U3.1 is on the same net
\* and isolated; U1 has one pad.
BoardTolerance ==
    [components |-> <<
        [designator |-> "U1", pads |-> <<JPad("1", "N1", 0)>>],
        [designator |-> "U2", pads |-> <<JPad("1", "N1", 12 * Mil)>>],
        [designator |-> "U3", pads |-> <<JPad("1", "N1", 40 * Mil)>>]>>,
     tracks |-> <<JTrack(Mil \div 2, 12 * Mil - Mil \div 2, "N1", 1, 2 * Mil)>>]

\* A top-layer track, a via and a bottom-layer arc from U1.1 to U2.1 (a
\* bottom-layer pad); U1.2, 3 mil from U1.1, is on another net; U3.1 is an
\* isolated through-hole pad.
BoardVia ==
    [components |-> <<
        [designator |-> "U1", layer |-> 1,
         pads |-> <<JPad("1", "N1", 0), JPad("2", "N2", 3 * Mil)>>],
        [designator |-> "U2", layer |-> 2, pads |-> <<JPad("1", "N1", 12 * Mil)>>],
        [designator |-> "U3", layer |-> 1,
         pads |-> <<[padNumber |-> "1", netName |-> "N1", location |-> 40 * Mil,
                     width |-> Mil \div 5, height |-> Mil \div 5, holeSize |-> Mil \div 5]>>]>>,
     tracks |-> <<JTrack(0, 6 * Mil, "N1", 1, Mil)>>,
     arcs |-> <<[center |-> 9 * Mil, radius |-> 0, startAngle |-> 0, endAngle |-> 0,
                 start |-> 6 * Mil + Mil \div 2, end |-> 12 * Mil,
                 netName |-> "N1", layer |-> 2, length |-> Mil + Mil \div 2]>>,
     vias |-> <<[location |-> 6 * Mil, netName |-> "N1", fromLayer |-> 1, toLayer |-> 2,
                 holeSize |-> Mil \div 5]>>]

\* Records the loader leaves out: empty net names, a track of exactly
\* 1e-6 mil; and two tracks it keeps, of 2e-6 mil and of 3e-6 mil, with the
\* same end points on different layers.
BoardFilter ==
    [components |-> <<
        [designator |-> "U1", layer |-> 1,
         pads |-> <<JPad("1", "N1", 0), JPad("2", "", 3 * Mil)>>],
        [designator |-> "U2", layer |-> 1, pads |-> <<JPad("#1", "N1", 6 * Mil)>>]>>,
     tracks |-> <<JTrack(0, 6 * Mil, "N1", 1, 2),
                  JTrack(0, 6 * Mil, "N1", 2, 1),
                  JTrack(0, 6 * Mil, "N1", 3, 3),
                  JTrack(0, 6 * Mil, "", 1, Mil)>>,
     arcs |-> <<[center |-> 3 * Mil, radius |-> 0, startAngle |-> 0, endAngle |-> 0,
                 start |-> 0, end |-> 6 * Mil,
                 netName |-> "N1", layer |-> 1, length |-> 0]>>,
     vias |-> <<[location |-> 0, netName |-> "", fromLayer |-> 1, toLayer |-> 2]>>]

\* The second track record has no netName.
BoardBroken ==
    [components |-> <<
        [designator |-> "U1", layer |-> 1, pads |-> <<JPad("1", "N1", 0)>>],
        [designator |-> "U2", layer |-> 1, pads |-> <<JPad("1", "N1", 6 * Mil)>>]>>,
     tracks |-> <<JTrack(0, 6 * Mil, "N1", 1, Mil),
                  [start |-> 0, end |-> 6 * Mil, layer |-> 1, length |-> Mil]>>]

JsonBoards == {BoardMain, BoardTolerance, BoardVia, BoardFilter, BoardBroken}

APad(Name, Net, X, Layer) == [Name |-> Name, Net |-> Net, X |-> X, Y |-> 0, Layer |-> Layer]
ATrack(X1, X2, Net, Layer) ==
    [X1 |-> X1, Y1 |-> 0, X2 |-> X2, Y2 |-> 0, Net |-> Net, Layer |-> Layer]

\* U1.1 and U2.1 as on the JSON boards, but on different nets.
AltiumSplit ==
    [components |-> <<
        [Designator |-> "U1", pads |-> <<APad("1", "N1", 0, "Top Layer")>>],
        [Designator |-> "U2", pads |-> <<APad("1", "N2", 3 * Mil, "Top Layer")>>],
        [Designator |-> "U3", pads |-> <<APad("1", "N1", 3 * Mil, "Bottom Layer")>>]>>,
     tracks |-> <<ATrack(0, 3 * Mil, "N1", "Top Layer")>>]

\* A pad and a track with "Net=" followed by nothing, a track from a point to
\* itself, and a pad record without a Layer line.
AltiumLoose ==
    [components |-> <<
        [Designator |-> "U1",
         pads |-> <<APad("1", "N1", 0, "Top Layer"), APad("2", "", 30 * Mil, "Top Layer")>>],
        [Designator |-> "U2",
         pads |-> <<APad("1", "N1", 3 * Mil, "Top Layer"),
                    [Name |-> "2", Net |-> "N1", X |-> 0, Y |-> 0]>>]>>,
     tracks |-> <<ATrack(0, 3 * Mil, "N1", "Top Layer"),
                  ATrack(3 * Mil, 3 * Mil, "N1", "Top Layer"),
                  ATrack(0, 2 * Mil, "", "Top Layer")>>]

AltiumFiles == {AltiumSplit, AltiumLoose}

\* The terminal identifiers queries are made with; U9.9 is on no board.
Terminals == {<<"U1", "1">>, <<"U1", "2">>, <<"U2", "1">>, <<"U3", "1">>, <<"U9", "9">>}

\* ------------------------------------------------------- the path finder

\* Python's order on the strings the model uses (code point order).
StrOrder == <<"1", "2", "9", "U1", "U2", "U3", "U9">>
Rank(str1) == CHOOSE i \in DOMAIN StrOrder : StrOrder[i] = str1
KeyLess(k1, k2) ==
    \/ Rank(k1[1]) < Rank(k2[1])
    \/ k1[1] = k2[1] /\ Rank(k1[2]) < Rank(k2[2])

\* A variant that keeps the two terminals in the order of the arguments.
ArgumentOrderKey(c1, p1, c2, p2) == <<<<c1, p1>>, <<c2, p2>>>>

\* cache_key = tuple(sorted((key_part1, key_part2)))
CacheKey(c1, p1, c2, p2) ==
    IF KeyLess(<<c2, p2>>, <<c1, p1>>) THEN <<<<c2, p2>>, <<c1, p1>>>>
    ELSE <<<<c1, p1>>, <<c2, p2>>>>

\* A variant that never finds a cached result.
Miss(cache, key) == FALSE

\* cache_key in self.connection_cache
Hit(cache, key) == key \in DOMAIN cache

Put(cache, key, value) ==
    [k \in DOMAIN cache \cup {key} |-> IF k = key THEN value ELSE cache[k]]

\* next((pad for pad in self.pads if ...), None)
FindPad(ps, c, p) ==
    LET hits == {i \in DOMAIN ps : ps[i].designator = c /\ ps[i].pad_number = p}
    IN IF hits = {} THEN None ELSE Some(ps[CHOOSE i \in hits : \A j \in hits : i <= j])

\* The pad the lookup yields, and the pad cache after it.
LocatePad(cache, ps, c, p) ==
    IF <<c, p>> \in DOMAIN cache THEN [pad |-> Some(cache[<<c, p>>]), cache |-> cache]
    ELSE LET found == FindPad(ps, c, p)
         IN [pad |-> found,
             cache |-> IF IsNone(found) THEN cache ELSE Put(cache, <<c, p>>, Value(found))]

Contains(seq, o) == \E i \in DOMAIN seq : SameObject(seq[i], o)
IndexOf(seq, o) == CHOOSE i \in DOMAIN seq :
                      SameObject(seq[i], o) /\ \A j \in DOMAIN seq : SameObject(seq[j], o) => i <= j

\* net_objs: the objects of pad_a's net, with both pads.
NetObjs(objs, pad_a, pad_b) ==
    LET OnNet(o) == o.net_name = pad_a.net_name
        n0 == SelectSeq(objs, OnNet)
        n1 == IF Contains(n0, pad_a) THEN n0 ELSE Append(n0, pad_a)
    IN IF Contains(n1, pad_b) THEN n1 ELSE Append(n1, pad_b)

\* A variant that tries the tolerance graph first.
strategies_tolerance_first == <<"build_bidirectional_graph", "build_accurate_graph">>

strategies == <<"build_accurate_graph", "build_bidirectional_graph">>

BuildGraph(strategy_name, net_objs) ==
    IF strategy_name = "build_accurate_graph" THEN build_accurate_graph(net_objs)
    ELSE build_bidirectional_graph(net_objs)

NoPathYet == [shortest_length |-> None, best_path |-> <<>>, strategy_used |-> "None",
              tried |-> <<>>]

\* The loop over the strategies: every way it can end, given what it holds (acc).
RECURSIVE RunStrategies(_, _, _, _, _)
RunStrategies(strats, net_objs, ia, ib, acc) ==
    IF strats = <<>> THEN {acc}
    ELSE LET strategy_name == Head(strats)
             G == BuildGraph(strategy_name, net_objs)
             found == shortest_path(G, ia, ib)
             acc1 == [acc EXCEPT !.tried = Append(@, strategy_name)]
             Accept(p) ==
                LET path == [i \in DOMAIN p |-> net_objs[p[i]]]
                IN [acc1 EXCEPT !.shortest_length = Some(calculate_path_length(path)),
                                !.best_path = path,
                                !.strategy_used = strategy_name]
         IN IF found = {} \/ ~IsNone(acc1.shortest_length)
            THEN RunStrategies(Tail(strats), net_objs, ia, ib, acc1)
            ELSE IF strategy_name = "build_accurate_graph"
            THEN {Accept(p) : p \in found}
            ELSE UNION {RunStrategies(Tail(strats), net_objs, ia, ib, Accept(p)) : p \in found}

\* The extractor's fields a query reads and writes.
Self == [rev |-> rev, objects |-> objects, pads |-> pads, pad_cache |-> pad_cache,
         connection_cache |-> connection_cache, path_cache |-> path_cache]

\* extract_traces_between_pads on the extractor self: every way the call can
\* end, as the extractor it leaves (self), the value returned (result) and what
\* the strategy loop did (loop; computed is FALSE when the loop did not run).
extract_traces_between_pads(self, c1, p1, c2, p2) ==
    LET cache_key == CacheKey(c1, p1, c2, p2)
        a == LocatePad(self.pad_cache, self.pads, c1, p1)
        b == LocatePad(a.cache, self.pads, c2, p2)
        self1 == [self EXCEPT !.pad_cache = b.cache]
        Failure == {[self |-> [self1 EXCEPT !.connection_cache = Put(@, cache_key, None)],
                     result |-> None, computed |-> FALSE, loop |-> NoPathYet]}
    IN IF Hit(self.connection_cache, cache_key)
       THEN {[self |-> self, result |-> self.connection_cache[cache_key],
              computed |-> FALSE, loop |-> NoPathYet]}
       ELSE IF IsNone(a.pad) \/ IsNone(b.pad) THEN Failure
       ELSE IF Value(a.pad).net_name # Value(b.pad).net_name THEN Failure
       ELSE LET pad_a == Value(a.pad)
                pad_b == Value(b.pad)
                net_objs == NetObjs(self.objects, pad_a, pad_b)
                ends == RunStrategies(strategies, net_objs, IndexOf(net_objs, pad_a),
                                      IndexOf(net_objs, pad_b), NoPathYet)
                Stored(e) ==
                    IF self.rev = "backend" /\ ~IsNone(e.shortest_length)
                    THEN Put(self1.path_cache, cache_key, <<e.best_path, e.strategy_used>>)
                    ELSE self1.path_cache
            IN {[self |-> [self1 EXCEPT
                             !.path_cache = Stored(e),
                             !.connection_cache = Put(@, cache_key, e.shortest_length)],
                 result |-> e.shortest_length, computed |-> TRUE, loop |-> e] : e \in ends}

\* ------------------------------------------------------------ path details

\* What get_trace_path returns: path_exists, the length it reports (None when
\* it reports none), the elements it lists (<<>> also stands for None) and, in
\* the backend revision, the strategy it names.
PathInfo(self, path_exists, length, path_elements, strategy_used) ==
    [self |-> self, path_exists |-> path_exists, length |-> length,
     path_elements |-> path_elements, strategy_used |-> strategy_used]

NoPathInfo(self) == PathInfo(self, FALSE, None, <<>>, "None")

\* One entry of path_elements in src/trace_extractor.py; pads are not listed.
RootElement(obj) ==
    CASE obj.type = "Track" ->
           [type |-> "Track", start |-> obj.start, end |-> obj.end, layer |-> obj.layer,
            length |-> obj.length, net_name |-> obj.net_name]
      [] obj.type = "Arc" ->
           [type |-> "Arc", radius |-> obj.radius, start |-> obj.start, end |-> obj.end,
            layer |-> obj.layer, length |-> obj.length, net_name |-> obj.net_name]
      [] OTHER ->
           [type |-> "Via", location |-> obj.location, from_layer |-> obj.from_layer,
            to_layer |-> obj.to_layer, net_name |-> obj.net_name]

\* get_trace_path of src/trace_extractor.py: the path is looked for again, in
\* the graph of build_bidirectional_graph.
get_trace_path_root(self, component1, pad1, component2, pad2) ==
    LET After(out) ==
          LET s == out.self
          IN IF IsNone(out.result) THEN {NoPathInfo(s)}
             ELSE IF <<component1, pad1>> \notin DOMAIN s.pad_cache
                     \/ <<component2, pad2>> \notin DOMAIN s.pad_cache
             THEN {NoPathInfo(s)}
             ELSE LET pad_a == s.pad_cache[<<component1, pad1>>]
                      pad_b == s.pad_cache[<<component2, pad2>>]
                      net_objs == NetObjs(s.objects, pad_a, pad_b)
                      G == build_bidirectional_graph(net_objs)
                      found == shortest_path(G, IndexOf(net_objs, pad_a),
                                             IndexOf(net_objs, pad_b))
                      Listed(p) ==
                          LET path == [i \in DOMAIN p |-> net_objs[p[i]]]
                              shown == SelectSeq(path, LAMBDA o : ~IsPad(o))
                          IN [i \in DOMAIN shown |-> RootElement(shown[i])]
                  IN IF found = {} THEN {NoPathInfo(s)}
                     ELSE {PathInfo(s, TRUE, out.result, Listed(p), "None") : p \in found}
    IN UNION {After(out) :
                out \in extract_traces_between_pads(self, component1, pad1, component2, pad2)}

\* One entry of path_elements in src/backend/trace_extractor.py.
BackendElement(i, obj) ==
    CASE obj.type = "Pad" ->
           [index |-> i, type |-> "Pad", component |-> obj.designator,
            pad |-> obj.pad_number, location |-> obj.location, layer |-> obj.layer,
            net |-> obj.net_name]
      [] obj.type = "Track" ->
           [index |-> i, type |-> "Track", start |-> obj.start, end |-> obj.end,
            layer |-> obj.layer, net |-> obj.net_name, length |-> obj.length]
      [] obj.type = "Arc" ->
           [index |-> i, type |-> "Arc", radius |-> obj.radius, start |-> obj.start,
            end |-> obj.end, layer |-> obj.layer, net |-> obj.net_name,
            length |-> obj.length]
      [] OTHER ->
           [index |-> i, type |-> "Via", location |-> obj.location,
            from_layer |-> obj.from_layer, to_layer |-> obj.to_layer, net |-> obj.net_name]

\* get_trace_path of src/backend/trace_extractor.py: the path kept in
\* path_cache is read first; only without one is the length computed.
get_trace_path_backend(self, c1, p1, c2, p2) ==
    LET cache_key == CacheKey(c1, p1, c2, p2)
        Described(s) ==
          LET best_path == s.path_cache[cache_key][1]
              strategy_used == s.path_cache[cache_key][2]
              length_mm == calculate_path_length(best_path)
          IN IF best_path = <<>> THEN NoPathInfo(s)
             ELSE PathInfo(s, TRUE, Some(length_mm),
                           [i \in DOMAIN best_path |-> BackendElement(i - 1, best_path[i])],
                           strategy_used)
        After(out) ==
          IF IsNone(out.result) THEN NoPathInfo(out.self)
          ELSE IF cache_key \in DOMAIN out.self.path_cache THEN Described(out.self)
          ELSE PathInfo(out.self, TRUE, out.result, <<>>, "None")
    IN IF cache_key \in DOMAIN self.path_cache THEN {Described(self)}
       ELSE {After(out) : out \in extract_traces_between_pads(self, c1, p1, c2, p2)}

get_trace_path(self, c1, p1, c2, p2) ==
    IF self.rev = "root" THEN get_trace_path_root(self, c1, p1, c2, p2)
    ELSE get_trace_path_backend(self, c1, p1, c2, p2)

\* ------------------------------------------------------ multi-net analysis

\* The entries of a sequence in order of first appearance (a dict's key order).
RECURSIVE Distinct(_)
Distinct(seq) ==
    IF seq = <<>> THEN <<>>
    ELSE LET rest == Distinct(SelectSeq(Tail(seq), LAMBDA x : x # Head(seq)))
         IN <<Head(seq)>> \o rest

JUMPER_DISTANCE == 100 * Mil          \* "dist < 100": threshold in mils

\* discover_jumper_points: a list whose entries are two-element lists
\* [(designator, pad_number), (designator, pad_number)].
discover_jumper_points(ps) ==
    LET designators == Distinct([i \in DOMAIN ps |-> ps[i].designator])
        PadsOf(des) == SelectSeq(ps, LAMBDA pad : pad.designator = des)
        NetsOf(des) == Distinct([i \in DOMAIN PadsOf(des) |-> PadsOf(des)[i].net_name])
        connectors == SelectSeq(designators, LAMBDA des : Len(NetsOf(des)) > 1)
        PadsOn(des, net) == SelectSeq(PadsOf(des), LAMBDA pad : pad.net_name = net)
        Close(pad1, pads2) ==
            LET near == SelectSeq(pads2, LAMBDA pad2 :
                                     Abs(pad1.location - pad2.location) < JUMPER_DISTANCE)
            IN [j \in DOMAIN near |-> <<<<pad1.designator, pad1.pad_number>>,
                                        <<near[j].designator, near[j].pad_number>>>>]
        Between(des, net1, net2) ==
            IF net1 = net2 THEN <<>>
            ELSE LET pads1 == PadsOn(des, net1)
                 IN Flatten([i \in DOMAIN pads1 |-> Close(pads1[i], PadsOn(des, net2))])
        From(des, net1) ==
            Flatten([k \in DOMAIN NetsOf(des) |-> Between(des, net1, NetsOf(des)[k])])
        Of(des) == Flatten([k \in DOMAIN NetsOf(des) |-> From(des, NetsOf(des)[k])])
    IN Flatten([d \in DOMAIN connectors |-> Of(connectors[d])])

\* The ordered pairs of pads the same-net loop of analyze_multi_net_path
\* asks extract_traces_between_pads about, in the order it asks.
SameNetPairs(ps) ==
    LET Row(i) == SelectSeq([j \in DOMAIN ps |-> <<ps[i], ps[j]>>],
                            LAMBDA pr : ~SameObject(pr[1], pr[2])
                                        /\ pr[1].net_name = pr[2].net_name)
    IN Flatten([i \in DOMAIN ps |-> Row(i)])

\* The same-net loop: every way it can end, as the extractor it leaves and the
\* edges <<node, node, weight>> it added (nodes are (designator, pad_number)).
RECURSIVE SameNetEdges(_, _, _)
SameNetEdges(self, pairs, edges) ==
    IF pairs = <<>> THEN {[self |-> self, edges |-> edges]}
    ELSE LET pad1 == Head(pairs)[1]
             pad2 == Head(pairs)[2]
             u == <<pad1.designator, pad1.pad_number>>
             v == <<pad2.designator, pad2.pad_number>>
             Added(length) ==
                 IF IsNone(length) THEN edges
                 ELSE {e \in edges : {e[1], e[2]} # {u, v}} \cup {<<u, v, Value(length)>>}
         IN UNION {SameNetEdges(out.self, Tail(pairs), Added(out.result)) :
                     out \in extract_traces_between_pads(self, u[1], u[2], v[1], v[2])}

\* The loop of analyze_multi_net_path over the steps of the path from step i
\* on: a step between pads of one net extends the current segment (or starts
\* the first one), a step between pads of two nets closes it and starts a
\* segment at the far pad.  acc holds net_segments, current_net (None before
\* the first step), segment and segment_length.
RECURSIVE NetSegmentsFrom(_, _, _, _, _)
NetSegmentsFrom(path, edges, net_of, i, acc) ==
    LET Closed == IF acc.segment = <<>> THEN acc.net_segments
                  ELSE Append(acc.net_segments,
                              <<Value(acc.current_net), acc.segment, acc.segment_length>>)
    IN IF i >= Len(path) THEN Closed
       ELSE LET node1 == path[i]
                node2 == path[i + 1]
                length == (CHOOSE e \in edges : {e[1], e[2]} = {node1, node2})[3]
                same == net_of[node1] = net_of[node2]
                begun == IF acc.current_net # Some(net_of[node1])
                         THEN [net_segments |-> Closed, current_net |-> Some(net_of[node1]),
                               segment |-> <<node1>>, segment_length |-> 0]
                         ELSE acc
            IN NetSegmentsFrom(path, edges, net_of, i + 1,
                 IF same
                 THEN [begun EXCEPT !.segment = Append(@, node2),
                                    !.segment_length = @ + length]
                 ELSE [net_segments |-> Closed, current_net |-> Some(net_of[node2]),
                       segment |-> <<node2>>, segment_length |-> 0])

\* net_segments of a path of the pad graph: (net, nodes, length) per segment.
NetSegments(path, edges, net_of) ==
    NetSegmentsFrom(path, edges, net_of, 1,
                    [net_segments |-> <<>>, current_net |-> None, segment |-> <<>>,
                     segment_length |-> 0])

\* for jp1, jp2 in zip(jumper_points[:-1], jumper_points[1:]):
\*     G.add_edge(jp1, jp2, weight=0)
\* on the edges so far.  The entries discover_jumper_points makes are lists,
\* which cannot be nodes (hashable is FALSE): the first add_edge raises.
JumperEdges(jumper_points, edges) ==
    LET pts == jumper_points.points
        joined == {{pts[i], pts[i + 1]} : i \in 1..(Len(pts) - 1)}
    IN IF Len(pts) < 2 THEN [raised |-> "", edges |-> edges, jumpers |-> {}]
       ELSE IF ~jumper_points.hashable
       THEN [raised |-> "TypeError", edges |-> edges, jumpers |-> {}]
       ELSE [raised |-> "",
             edges |-> {e \in edges : {e[1], e[2]} \notin joined}
                         \cup {<<pts[i], pts[i + 1], 0>> : i \in 1..(Len(pts) - 1)},
             jumpers |-> joined]

\* analyze_multi_net_path(start_comp, start_pad, end_comp, end_pad,
\* jumper_points) with a list of jumper points; the points given are pads of
\* the board.  jumper_edges is the set of zero-weight edges the graph got.
analyze_multi_net_path_with(self, start_comp, start_pad, end_comp, end_pad, jumper_points) ==
    LET nodes == Distinct([i \in DOMAIN self.pads |->
                             <<self.pads[i].designator, self.pads[i].pad_number>>])
        At(node) == CHOOSE i \in DOMAIN nodes : nodes[i] = node
        Known(node) == \E i \in DOMAIN nodes : nodes[i] = node
        \* G.nodes[node]['pad']: the last pad added under that identifier
        NetOf(node) ==
            self.pads[CHOOSE i \in DOMAIN self.pads :
                        /\ <<self.pads[i].designator, self.pads[i].pad_number>> = node
                        /\ \A j \in DOMAIN self.pads :
                             <<self.pads[j].designator, self.pads[j].pad_number>> = node
                             => j <= i].net_name
        Ended(got) ==
          LET all == JumperEdges(jumper_points, got.edges)
              G == [n |-> Len(nodes),
                    edges |-> {<<At(e[1]), At(e[2]), e[3]>> : e \in all.edges}]
              NoResult == [self |-> got.self, raised |-> "", result |-> None,
                           net_segments |-> <<>>, path |-> <<>>, jumper_edges |-> all.jumpers]
              Result(p) ==
                  LET path == [i \in DOMAIN p |-> nodes[p[i]]]
                      net_segments ==
                          NetSegments(path, all.edges,
                                      [nd \in {nodes[i] : i \in DOMAIN nodes} |-> NetOf(nd)])
                      same_net == {i \in 1..(Len(path) - 1) :
                                     NetOf(path[i]) = NetOf(path[i + 1])}
                      Weight(i) == (CHOOSE e \in all.edges :
                                      {e[1], e[2]} = {path[i], path[i + 1]})[3]
                  IN [self |-> got.self, raised |-> "",
                      result |-> Some(SumSeq([i \in 1..(Len(path) - 1) |->
                                                IF i \in same_net THEN Weight(i) ELSE 0])),
                      net_segments |-> net_segments, path |-> path,
                      jumper_edges |-> all.jumpers]
          IN IF all.raised # ""
             THEN {[NoResult EXCEPT !.raised = all.raised]}
             ELSE IF ~Known(<<start_comp, start_pad>>) \/ ~Known(<<end_comp, end_pad>>)
             THEN {NoResult}
             ELSE LET found == shortest_path(G, At(<<start_comp, start_pad>>),
                                             At(<<end_comp, end_pad>>))
                  IN IF found = {} THEN {NoResult} ELSE {Result(p) : p \in found}
    IN UNION {Ended(got) : got \in SameNetEdges(self, SameNetPairs(self.pads), {})}

\* analyze_multi_net_path(start_comp, start_pad, end_comp, end_pad) with
\* jumper_points left to discover_jumper_points.
analyze_multi_net_path(self, start_comp, start_pad, end_comp, end_pad) ==
    analyze_multi_net_path_with(self, start_comp, start_pad, end_comp, end_pad,
                                [hashable |-> FALSE,
                                 points |-> discover_jumper_points(self.pads)])

\* ---------------------------------------------------------------- impedance

\* Ohms are counted in thousandths; a layer's height is a length, its
\* dielectric constant is counted in tenths.
PCBLayer(name, layer_number, height, material, dielectric_constant) ==
    [name |-> name, layer_number |-> layer_number, height |-> height,
     material |-> material, dielectric_constant |-> dielectric_constant]

default_layers ==
    <<PCBLayer("Top", 1, 6 * Mil, "copper", 42),
      PCBLayer("Dielectric1", 2, 10 * Mil, "FR4", 45),
      PCBLayer("GND", 3, (14 * Mil) \div 10, "copper", 10),
      PCBLayer("Dielectric2", 4, 10 * Mil, "FR4", 45),
      PCBLayer("Power", 5, (14 * Mil) \div 10, "copper", 10),
      PCBLayer("Dielectric3", 6, 10 * Mil, "FR4", 45),
      PCBLayer("Bottom", 7, 6 * Mil, "copper", 42)>>

get_layer_by_number(stackup, layer_number) ==
    LET hits == {i \in DOMAIN stackup : stackup[i].layer_number = layer_number}
    IN IF hits = {} THEN None ELSE Some(stackup[CHOOSE i \in hits : \A j \in hits : i <= j])

HasWidth(track) == "width" \in DOMAIN track

\* track.width = 10.0
WithWidth(track) ==
    [type |-> track.type, net_name |-> track.net_name, start |-> track.start,
     end |-> track.end, layer |-> track.layer, length |-> track.length,
     width |-> 10 * Mil]

\* Impedances are integers counting milliohms and dielectric constants
\* integers counting tenths.  The formulas are evaluated on dimensions in
\* tenths of a mil, with math.log and math.sqrt in fixed point (to about one
\* part in a thousand); the dimensions of the model are whole tenths of a mil.
Tenths(x) == x \div (Mil \div 10)

\* math.sqrt(n / 1000000) * 1000 for n > 0, rounded down (Newton's iteration)
RECURSIVE SqrtDown(_, _)
SqrtDown(n, x) ==
    LET y == (x + n \div x) \div 2
    IN IF y >= x THEN x ELSE SqrtDown(n, y)

\* math.log(p / q) * 10000 for p >= q > 0: ln 2 for every halving that leaves
\* the ratio at least 1, then 2 atanh((p - q) / (p + q)) by its series.
RECURSIVE LogAtLeastOne(_, _)
LogAtLeastOne(p, q) ==
    IF p >= 2 * q THEN 6931 + LogAtLeastOne(p, 2 * q)
    ELSE LET y == ((p - q) * 10000) \div (p + q)
             y2 == (y * y) \div 10000
             y3 == (y * y2) \div 10000
             y5 == (y3 * y2) \div 10000
             y7 == (y5 * y2) \div 10000
         IN 2 * (y + y3 \div 3 + y5 \div 5 + y7 \div 7)

\* math.log(p / q) * 10000 for p > 0 and q > 0
Log(p, q) == IF p >= q THEN LogAtLeastOne(p, q) ELSE -LogAtLeastOne(q, p)

\* What a try block comes to: a value, or the exception it raised.
Computes(value) == [raised |-> "", value |-> value]
Raises(exception) == [raised |-> exception, value |-> 0]

\* A variant that returns the value of the formula as it is.
Unclamped(lowest, highest, impedance) == impedance

\* max(lowest, min(highest, impedance))
Clamp(lowest, highest, impedance) == Max2(lowest, Min2(highest, impedance))

\* except (ValueError, ZeroDivisionError): return 50.0
OrDefault(tried) == IF tried.raised # "" THEN 50000 ELSE tried.value

\* The try block of calculate_microstrip_impedance:
\* (80 / sqrt(er)) * ln(1 + 5 h / w), clamped to 20..120 ohms.
MicrostripFormula(width, height, er) ==
    IF er < 0 THEN Raises("ValueError")
    ELSE IF er = 0 THEN Raises("ZeroDivisionError")
    ELSE Computes(Clamp(20000, 120000,
                        (8000 * Log(Tenths(width) + 5 * Tenths(height), Tenths(width)))
                            \div SqrtDown(er * 100000, er * 100000)))

\* The try block of calculate_stripline_impedance:
\* (60 / sqrt(er)) * ln(1.9 * 2 h / (0.8 w + 1.4)), by 60 ln(4 h / w) / sqrt(er)
\* when that is not positive, clamped to 25..120 ohms.
StriplineFormula(width, height, er) ==
    LET root == SqrtDown(er * 100000, er * 100000)
        across == 8 * Tenths(width) + 140
        first == (6000 * Log(38 * Tenths(height), across)) \div root
    IN IF er < 0 THEN Raises("ValueError")
       ELSE IF er = 0 \/ across = 0 THEN Raises("ZeroDivisionError")
       ELSE IF across < 0 THEN Raises("ValueError")
       ELSE IF first > 0 THEN Computes(Clamp(25000, 120000, first))
       ELSE IF width = 0 THEN Raises("ZeroDivisionError")
       ELSE IF width < 0 THEN Raises("ValueError")
       ELSE Computes(Clamp(25000, 120000,
                           (6000 * Log(4 * Tenths(height), Tenths(width))) \div root))

calculate_microstrip_impedance(track, stackup) ==
    LET given == IF HasWidth(track) THEN track.width ELSE 10 * Mil
        width == IF given <= 0 THEN Mil \div 10 ELSE given
        layer == get_layer_by_number(stackup, track.layer)
        height == IF Value(layer).height <= 0 THEN Mil \div 10 ELSE Value(layer).height
    IN IF IsNone(layer) THEN 50000
       ELSE OrDefault(MicrostripFormula(width, height, Value(layer).dielectric_constant))

calculate_stripline_impedance(track, stackup) ==
    LET width == IF HasWidth(track) THEN track.width ELSE 10 * Mil
        layer == get_layer_by_number(stackup, track.layer)
        height == IF Value(layer).height <= 0 THEN Mil \div 10 ELSE Value(layer).height
    IN IF IsNone(layer) THEN 50000
       ELSE OrDefault(StriplineFormula(width, height, Value(layer).dielectric_constant))

\* The track object the loop of calculate_trace_impedance finds for a Track
\* element of the path: its position in self.objects, 0 when there is none.
FoundTrack(objs, element) ==
    LET hits == {k \in DOMAIN objs :
                   /\ objs[k].type = "Track"
                   /\ element.layer = objs[k].layer
                   /\ round_point(objs[k].start) = round_point(element.start)
                   /\ round_point(objs[k].end) = round_point(element.end)}
    IN IF hits = {} THEN 0 ELSE CHOOSE k \in hits : \A j \in hits : k <= j

\* The track the loop works on for a Track element: the one found at position
\* k0 of self.objects, or a new Track made from the element when k0 = 0; it is
\* given the width 10.0 if it has none.
SegmentTrack(objs, element, k0) ==
    IF k0 = 0
    THEN WithWidth(Track(element.start, element.end, element.net_name,
                         element.layer, element.length))
    ELSE IF HasWidth(objs[k0]) THEN objs[k0] ELSE WithWidth(objs[k0])

\* The entry appended to segments for a Track element and its track.
SegmentEntry(element, track, outer) ==
    [segment |-> element,
     impedance |-> IF outer THEN calculate_microstrip_impedance(track, default_layers)
                   ELSE calculate_stripline_impedance(track, default_layers),
     type |-> IF outer THEN "microstrip" ELSE "stripline",
     width |-> track.width, length |-> track.length, layer |-> track.layer]

\* What the loop records for one Track element.
ImpedanceSegment(objs, element) ==
    CHOOSE entry \in
        {SegmentEntry(element, track, track.layer = 1 \/ track.layer = Len(default_layers)) :
           track \in {SegmentTrack(objs, element, FoundTrack(objs, element))}} : TRUE

\* The loop of calculate_trace_impedance over the Track elements of the path:
\* the objects it leaves (a track found in self.objects is given a width if
\* it has none) and the segments it records.
ImpedanceSegments(objs, track_elements) ==
    LET found == {FoundTrack(objs, track_elements[i]) : i \in DOMAIN track_elements}
    IN [objects |-> [k \in DOMAIN objs |->
                       IF k \in found /\ ~HasWidth(objs[k]) THEN WithWidth(objs[k])
                       ELSE objs[k]],
        segments |-> [i \in DOMAIN track_elements |->
                        ImpedanceSegment(objs, track_elements[i])]]

\* The end of calculate_trace_impedance, after the loop: the result made from
\* the recorded segments, or None when their total length is not positive.
\* (impedance_ohms, the length-weighted mean, is not carried here.)
ImpedanceResult(self, segs, total_length, total_width, zs) ==
    IF total_length > 0
    THEN [self |-> self,
          result |-> Some([trace_width |-> total_width \div Len(segs),
                           dielectric_constant |-> 45,
                           min_impedance |-> Least(zs),
                           max_impedance |-> CHOOSE z \in zs : \A y \in zs : y <= z,
                           segments |-> segs,
                           total_length_mils |-> total_length,
                           total_length_mm |-> total_length * MILS_TO_MM])]
    ELSE [self |-> self, result |-> None]

\* calculate_trace_impedance from the path details on: no path or no Track
\* element gives None; otherwise the loop runs and the result is made.
ImpedanceOfPath(info, track_elements) ==
    IF ~info.path_exists \/ track_elements = <<>>
    THEN {[self |-> info.self, result |-> None]}
    ELSE {ImpedanceResult([info.self EXCEPT !.objects = done.objects], done.segments,
                          SumSeq([i \in DOMAIN done.segments |-> done.segments[i].length]),
                          SumSeq([i \in DOMAIN done.segments |-> done.segments[i].width]),
                          {done.segments[i].impedance : i \in DOMAIN done.segments}) :
            done \in {ImpedanceSegments(info.self.objects, track_elements)}}

\* calculate_trace_impedance(component1, pad1, component2, pad2): every way it
\* can end, as the extractor it leaves and the result it returns, with what
\* its call of extract_traces_between_pads returned (trace_length) and did
\* (computed, loop).
calculate_trace_impedance(self, component1, pad1, component2, pad2) ==
    UNION {{[self |-> end.self, result |-> end.result, trace_length |-> out.result,
             computed |-> out.computed, loop |-> out.loop] :
              end \in IF IsNone(out.result) THEN {[self |-> out.self, result |-> None]}
                      ELSE UNION {ImpedanceOfPath(info, SelectSeq(info.path_elements,
                                                          LAMBDA e : e.type = "Track")) :
                                    info \in get_trace_path_root(out.self, component1, pad1,
                                                                 component2, pad2)}} :
             out \in extract_traces_between_pads(self, component1, pad1, component2, pad2)}

\* ------------------------------------------------------- nets of the board
\* The pads of the board data with their components, in the order of the
\* loops "for comp in components: for pad in comp.get('pads', [])".
PadsOfData(data) ==
    LET comps == Get(data, "components", <<>>)
    IN Flatten([i \in DOMAIN comps |->
                  [j \in DOMAIN Get(comps[i], "pads", <<>>) |->
                     [comp |-> comps[i], pad |-> comps[i].pads[j]]]])

\* The counting loop of get_nets over the pads still to visit: net_info is
\* the defaultdict, components the set of designators seen so far.
RECURSIVE CountNets(_, _, _)
CountNets(visits, net_info, components) ==
    IF visits = <<>> THEN net_info
    ELSE LET comp == Head(visits).comp
             net_name == Get(Head(visits).pad, "netName", "")
             info == IF net_name \in DOMAIN net_info THEN net_info[net_name]
                     ELSE [component_count |-> 0, pad_count |-> 0]
             seen == comp.designator \in components
         IN IF net_name = "" THEN CountNets(Tail(visits), net_info, components)
            ELSE CountNets(Tail(visits),
                           Put(net_info, net_name,
                               [component_count |-> info.component_count
                                                      + (IF seen THEN 0 ELSE 1),
                                pad_count |-> info.pad_count + 1]),
                           components \cup {comp.designator})

\* get_nets(): the entries of the list it returns, by net name
get_nets(data) ==
    IF IsNone(data) THEN <<>> ELSE CountNets(PadsOfData(Value(data)), <<>>, {})

\* length * MILS_TO_MM for a length that is a millimetre value already: the
\* product with 0.0254, rounded down to the unit of millimetre values.
TimesMilsToMm(mm) == (mm \div 10000) * MILS_TO_MM + ((mm % 10000) * MILS_TO_MM) \div 10000

\* net_pads[i+1:] for every i: the pairs the loops of calculate_trace_lengths
\* visit, in order
PadPairs(net_pads) ==
    Flatten([i \in DOMAIN net_pads |->
               [k \in 1..(Len(net_pads) - i) |-> <<net_pads[i], net_pads[i + k]>>]])

\* The loops of calculate_trace_lengths over the pairs still to visit: every
\* way they can end, as the extractor left, the list built (result) and what
\* extract_traces_between_pads returned for each pair (returned).
RECURSIVE LengthsOfPairs(_, _, _, _)
LengthsOfPairs(self, pairs, trace_lengths, returned) ==
    IF pairs = <<>>
    THEN {[self |-> self, result |-> trace_lengths, returned |-> returned]}
    ELSE LET pad1 == Head(pairs)[1]
             pad2 == Head(pairs)[2]
         IN UNION {LengthsOfPairs(
                      out.self, Tail(pairs),
                      IF IsNone(out.result) THEN trace_lengths
                      ELSE Append(trace_lengths,
                                  [start_component |-> pad1.component,
                                   start_pad |-> pad1.pad,
                                   end_component |-> pad2.component,
                                   end_pad |-> pad2.pad,
                                   length_mm |-> TimesMilsToMm(Value(out.result))]),
                      Append(returned, out.result)) :
                   out \in extract_traces_between_pads(self, pad1.component, pad1.pad,
                                                       pad2.component, pad2.pad)}

\* calculate_trace_lengths(net_name)
calculate_trace_lengths(self, data, net_name) ==
    IF IsNone(data) THEN {[self |-> self, result |-> <<>>, returned |-> <<>>]}
    ELSE LET visits == SelectSeq(PadsOfData(Value(data)),
                                 LAMBDA v : v.pad.netName = net_name)
             net_pads == [i \in DOMAIN visits |->
                            [component |-> visits[i].comp.designator,
                             pad |-> visits[i].pad.padNumber,
                             x |-> visits[i].pad.location]]
         IN LengthsOfPairs(self, PadPairs(net_pads), <<>>, <<>>)

\* ------------------------------------------------------------------ state

Ret(op, args) ==
    [op |-> op, args |-> args, result |-> None, raised |-> "", computed |-> FALSE,
     loop |-> NoPathYet, path_exists |-> FALSE, path_elements |-> <<>>,
     strategy_used |-> "None", net_segments |-> <<>>, path |-> <<>>,
     jumper_edges |-> {}, trace_length |-> None, returned |-> <<>>,
     printed_error |-> FALSE]

\* The web application is not running.
NoServer ==
    /\ pcb_data_store = <<>>
    /\ shared_store = <<>>
    /\ active_tasks = <<>>
    /\ background = <<>>
    /\ now = 0

Init ==
    /\ rev \in {"root", "backend"}
    /\ objects = <<>>
    /\ pads = <<>>
    /\ pad_cache = <<>>
    /\ connection_cache = <<>>
    /\ path_cache = <<>>
    /\ ret = Ret("__init__", <<>>)
    /\ nloads = 0
    /\ ncalls = 0
    /\ answered = <<>>
    /\ has_path_cache = FALSE
    /\ loading = None
    /\ threads = <<>>
    /\ pcb_data = None
    /\ NoServer

\* A loader ran its parsing loops over items after clearing what it clears.
Loaded(op, items, cleared_connection_cache) ==
    LET got == Parsed(items)
    IN /\ objects' = got.objects
       /\ pads' = got.pads
       /\ pad_cache' = got.pad_cache
       /\ connection_cache' = cleared_connection_cache
       /\ ret' = [Ret(op, <<>>) EXCEPT !.raised = IF got.raised THEN "KeyError" ELSE ""]
       /\ nloads' = nloads + 1
       /\ answered' = <<>>
       /\ UNCHANGED <<rev, path_cache, ncalls, has_path_cache, loading, threads, server>>

\* load_json_file(path) on a file that holds the board data.
load_json_file(data) ==
    /\ rev = "root"
    /\ nloads < MaxLoads
    /\ Loaded("load_json_file", JsonItems(data), <<>>)
    /\ UNCHANGED pcb_data

\* load_json_file(path) on a missing file or on one that is not JSON.
load_json_file_unreadable ==
    /\ rev = "root"
    /\ nloads < MaxLoads
    /\ ret' = [Ret("load_json_file", <<>>) EXCEPT !.printed_error = TRUE]
    /\ nloads' = nloads + 1
    /\ answered' = <<>>
    /\ UNCHANGED <<rev, objects, pads, pad_cache, connection_cache, path_cache, ncalls,
                   has_path_cache, loading, threads, pcb_data, server>>

\* import_from_altium_designer(file_path) on a readable file.
import_from_altium_designer(content) ==
    /\ rev = "root"
    /\ nloads < MaxLoads
    /\ Loaded("import_from_altium_designer", AltiumItems(content), connection_cache)
    /\ UNCHANGED pcb_data

\* self.pcb_data = data; self._process_pcb_data()
process_pcb_data(data) ==
    /\ rev = "backend"
    /\ nloads < MaxLoads
    /\ Loaded("_process_pcb_data", JsonItems(data), <<>>)
    /\ pcb_data' = Some(data)

Adopt(self) ==
    /\ pad_cache' = self.pad_cache
    /\ connection_cache' = self.connection_cache
    /\ path_cache' = self.path_cache
    /\ objects' = self.objects
    /\ pads' = self.pads
    /\ has_path_cache' = (has_path_cache \/ self.path_cache # path_cache)
    /\ UNCHANGED <<rev, loading, threads, pcb_data, server>>

\* extractor.extract_traces_between_pads(c1, p1, c2, p2)
ExtractTraces(c1, p1, c2, p2) ==
    /\ ncalls < MaxCalls
    /\ nloads > 0
    /\ \E out \in extract_traces_between_pads(Self, c1, p1, c2, p2) :
         /\ Adopt(out.self)
         /\ ret' = [Ret("extract_traces_between_pads", <<c1, p1, c2, p2>>) EXCEPT
                      !.result = out.result, !.computed = out.computed, !.loop = out.loop]
         /\ answered' = IF <<c1, p1, c2, p2>> \in DOMAIN answered THEN answered
                         ELSE Put(answered, <<c1, p1, c2, p2>>, out.result)
    /\ ncalls' = ncalls + 1
    /\ UNCHANGED nloads

\* extractor.get_trace_path(c1, p1, c2, p2)
GetTracePath(c1, p1, c2, p2) ==
    /\ ncalls < MaxCalls
    /\ nloads > 0
    /\ \E info \in get_trace_path(Self, c1, p1, c2, p2) :
         /\ Adopt(info.self)
         /\ ret' = [Ret("get_trace_path", <<c1, p1, c2, p2>>) EXCEPT
                      !.result = info.length, !.path_exists = info.path_exists,
                      !.path_elements = info.path_elements,
                      !.strategy_used = info.strategy_used]
    /\ ncalls' = ncalls + 1
    /\ UNCHANGED <<nloads, answered, pcb_data, server>>

\* extractor.analyze_multi_net_path(start_comp, start_pad, end_comp, end_pad)
AnalyzeMultiNetPath(start_comp, start_pad, end_comp, end_pad) ==
    /\ rev = "root"
    /\ ncalls < MaxCalls
    /\ nloads > 0
    /\ \E out \in analyze_multi_net_path(Self, start_comp, start_pad, end_comp, end_pad) :
         /\ Adopt(out.self)
         /\ ret' = [Ret("analyze_multi_net_path",
                        <<start_comp, start_pad, end_comp, end_pad>>) EXCEPT
                      !.result = out.result, !.raised = out.raised,
                      !.net_segments = out.net_segments, !.path = out.path,
                      !.jumper_edges = out.jumper_edges]
    /\ ncalls' = ncalls + 1
    /\ UNCHANGED <<nloads, answered, pcb_data, server>>

\* extractor.calculate_trace_impedance(component1, pad1, component2, pad2)
CalculateTraceImpedance(component1, pad1, component2, pad2) ==
    /\ rev = "root"
    /\ ncalls < MaxCalls
    /\ nloads > 0
    /\ \E out \in calculate_trace_impedance(Self, component1, pad1, component2, pad2) :
         /\ Adopt(out.self)
         /\ ret' = [Ret("calculate_trace_impedance",
                        <<component1, pad1, component2, pad2>>) EXCEPT
                      !.result = out.result, !.trace_length = out.trace_length,
                      !.computed = out.computed, !.loop = out.loop]
    /\ ncalls' = ncalls + 1
    /\ UNCHANGED <<nloads, answered, pcb_data, server>>

Next ==
    \/ \E data \in JsonBoards : load_json_file(data)
    \/ load_json_file_unreadable
    \/ \E content \in AltiumFiles : import_from_altium_designer(content)
    \/ \E data \in JsonBoards : process_pcb_data(data)
    \/ \E t1 \in Terminals, t2 \in Terminals : ExtractTraces(t1[1], t1[2], t2[1], t2[2])
    \/ \E t1 \in Terminals, t2 \in Terminals : GetTracePath(t1[1], t1[2], t2[1], t2[2])
    \/ \E t1 \in Terminals, t2 \in Terminals :
         AnalyzeMultiNetPath(t1[1], t1[2], t2[1], t2[2])
    \/ \E t1 \in Terminals, t2 \in Terminals :
         CalculateTraceImpedance(t1[1], t1[2], t2[1], t2[2])

Spec == Init /\ [][Next]_vars

\* ------------------------------------------------ impedance along a path
\* get_path_impedance_profile takes the stackup from its caller.  Stackups of
\* the callers: the seven default layers, and four layers numbered from 0,
\* given bottom first.
ZeroBasedLayers ==
    <<PCBLayer("Bottom", 3, 6 * Mil, "copper", 42),
      PCBLayer("Top", 0, 6 * Mil, "copper", 42),
      PCBLayer("Inner1", 1, 10 * Mil, "FR4", 45),
      PCBLayer("Inner2", 2, 10 * Mil, "FR4", 45)>>

StackupLayers == {default_layers, ZeroBasedLayers}

\* PCBStackup(layers).layers: sorted(layers, key=lambda l: l.layer_number)
RECURSIVE PCBStackup(_)
PCBStackup(layers) ==
    IF layers = <<>> THEN <<>>
    ELSE LET first == Head(layers)
             rest == PCBStackup(Tail(layers))
         IN SelectSeq(rest, LAMBDA l : l.layer_number < first.layer_number)
            \o <<first>>
            \o SelectSeq(rest, LAMBDA l : l.layer_number >= first.layer_number)

\* The track object the loop of get_path_impedance_profile finds for a Track
\* element: its position in self.objects, 0 when there is none.
ProfileTrack(objs, element) ==
    LET hits == {k \in DOMAIN objs :
                   /\ objs[k].type = "Track"
                   /\ round_point(objs[k].start) = round_point(element.start)
                   /\ round_point(objs[k].end) = round_point(element.end)}
    IN IF hits = {} THEN 0 ELSE Least(hits)

\* The pair appended to impedance_profile for an element and its track.
ProfileEntry(element, track, stackup) ==
    [segment |-> element,
     impedance |-> IF track.layer = 1 \/ track.layer = Len(stackup)
                   THEN calculate_microstrip_impedance(track, stackup)
                   ELSE calculate_stripline_impedance(track, stackup)]

\* get_path_impedance_profile: None without a path, else the pairs of the
\* Track elements of the path that have a track object.
get_path_impedance_profile(self, component1, pad1, component2, pad2, stackup) ==
    LET Profile(info) ==
          LET objs == info.self.objects
              measured == SelectSeq(info.path_elements,
                                    LAMBDA e : e.type = "Track" /\ ProfileTrack(objs, e) > 0)
          IN [self |-> info.self,
              result |-> IF info.path_exists
                         THEN Some([i \in DOMAIN measured |->
                                      ProfileEntry(measured[i],
                                                   objs[ProfileTrack(objs, measured[i])],
                                                   stackup)])
                         ELSE None]
    IN {Profile(info) : info \in get_trace_path_root(self, component1, pad1, component2, pad2)}

InitProfile == Init /\ rev = "root"

\* extractor.get_path_impedance_profile(component1, pad1, component2, pad2,
\*                                      PCBStackup(layers))
GetPathImpedanceProfile(component1, pad1, component2, pad2, layers) ==
    /\ rev = "root"
    /\ ncalls < MaxCalls
    /\ nloads > 0
    /\ \E out \in get_path_impedance_profile(Self, component1, pad1, component2, pad2,
                                             PCBStackup(layers)) :
         /\ Adopt(out.self)
         /\ ret' = [Ret("get_path_impedance_profile",
                        <<component1, pad1, component2, pad2, layers>>) EXCEPT
                      !.result = out.result]
    /\ ncalls' = ncalls + 1
    /\ UNCHANGED <<nloads, answered, pcb_data, server>>

NextProfile ==
    \/ \E data \in JsonBoards : load_json_file(data)
    \/ \E t1 \in Terminals, t2 \in Terminals :
         CalculateTraceImpedance(t1[1], t1[2], t2[1], t2[2])
    \/ \E t1 \in Terminals, t2 \in Terminals, layers \in StackupLayers :
         GetPathImpedanceProfile(t1[1], t1[2], t2[1], t2[2], layers)

SpecProfile == InitProfile /\ [][NextProfile]_vars

\* ------------------------------------------- a load running beside queries

\* load_json_file runs in one thread while other threads query the same
\* extractor: nothing is locked, so the interpreter can switch threads between
\* any two statements of the load.  loading holds the parsing steps of the load
\* under way and the statement it has reached: the four clearing assignments
\* first (cleared counts them), then the records one by one (done counts them).

RaceBoards == {BoardMain, BoardTolerance}

InitRace == Init /\ rev = "root"

\* self.objects = [], the first statement after the file was read
BeginLoad(data) ==
    /\ loading = None
    /\ nloads < MaxLoads
    /\ loading' = Some([items |-> JsonItems(data), cleared |-> 1, done |-> 0])
    /\ objects' = <<>>
    /\ UNCHANGED <<rev, pads, pad_cache, connection_cache, path_cache, ret, nloads, ncalls,
                   answered, has_path_cache, threads, pcb_data, server>>

\* self.pads = []; self.pad_cache = {}; self.connection_cache = {}
ClearNext ==
    /\ loading # None
    /\ Value(loading).cleared < 4
    /\ loading' = Some([Value(loading) EXCEPT !.cleared = @ + 1])
    /\ pads' = IF Value(loading).cleared = 1 THEN <<>> ELSE pads
    /\ pad_cache' = IF Value(loading).cleared = 2 THEN <<>> ELSE pad_cache
    /\ connection_cache' = IF Value(loading).cleared = 3 THEN <<>> ELSE connection_cache
    /\ UNCHANGED <<rev, objects, path_cache, ret, nloads, ncalls, answered, has_path_cache,
                   threads, pcb_data, server>>

\* The load is over: it returned, or a record raised KeyError.
EndLoad(raised) ==
    /\ loading' = None
    /\ ret' = [Ret("load_json_file", <<>>) EXCEPT !.raised = raised]
    /\ nloads' = nloads + 1
    /\ answered' = <<>>

\* One pass of a parsing loop: the next record is read and, if kept, appended.
LoadItem ==
    /\ loading # None
    /\ Value(loading).cleared = 4
    /\ Value(loading).done < Len(Value(loading).items)
    /\ LET item == Value(loading).items[Value(loading).done + 1]
       IN IF item.bad
          THEN /\ EndLoad("KeyError")
               /\ UNCHANGED <<objects, pads, pad_cache, pcb_data, server>>
          ELSE /\ loading' = Some([Value(loading) EXCEPT !.done = @ + 1])
               /\ objects' = IF item.keep THEN Append(objects, item.obj) ELSE objects
               /\ pads' = IF item.keep /\ IsPad(item.obj) THEN Append(pads, item.obj) ELSE pads
               /\ pad_cache' = IF item.keep /\ IsPad(item.obj)
                               THEN Put(pad_cache, <<item.obj.designator, item.obj.pad_number>>,
                                        item.obj)
                               ELSE pad_cache
               /\ UNCHANGED <<ret, nloads, answered, pcb_data, server>>
    /\ UNCHANGED <<rev, connection_cache, path_cache, ncalls, has_path_cache, threads, pcb_data, server>>

\* The last loop is through: load_json_file prints its summary and returns.
FinishLoad ==
    /\ loading # None
    /\ Value(loading).cleared = 4
    /\ Value(loading).done = Len(Value(loading).items)
    /\ EndLoad("")
    /\ UNCHANGED <<rev, objects, pads, pad_cache, connection_cache, path_cache, ncalls,
                   has_path_cache, threads, pcb_data, server>>

\* extract_traces_between_pads called in another thread, run between two
\* statements of the load (or when no load is under way).
ExtractBesideLoad(c1, p1, c2, p2) ==
    /\ ncalls < MaxCalls
    /\ nloads > 0 \/ loading # None
    /\ \E out \in extract_traces_between_pads(Self, c1, p1, c2, p2) :
         /\ Adopt(out.self)
         /\ ret' = [Ret("extract_traces_between_pads", <<c1, p1, c2, p2>>) EXCEPT
                      !.result = out.result, !.computed = out.computed, !.loop = out.loop]
    /\ ncalls' = ncalls + 1
    /\ UNCHANGED <<nloads, answered, pcb_data, server>>

NextRace ==
    \/ \E data \in RaceBoards : BeginLoad(data)
    \/ ClearNext
    \/ LoadItem
    \/ FinishLoad
    \/ \E t1 \in Terminals, t2 \in Terminals : ExtractBesideLoad(t1[1], t1[2], t2[1], t2[2])

SpecRace == InitRace /\ [][NextRace]_vars

\* ------------------------------------------------------------ properties

\* The last call was extract_traces_between_pads and it ran the strategy loop
\* (both pads found, on one net, nothing cached for the pair).
Computed == ret.op = "extract_traces_between_pads" /\ ret.computed

\* The nodes a set of nodes reaches along the edges of a graph.
RECURSIVE Reach(_, _)
Reach(G, S) ==
    LET T == S \cup {e[2] : e \in {e \in G.edges : e[1] \in S}}
                \cup {e[1] : e \in {e \in G.edges : e[2] \in S}}
    IN IF T = S THEN S ELSE Reach(G, T)

\* The objects of the net of the last call's first pad, and its two pads.
ArgPadA == pad_cache[<<ret.args[1], ret.args[2]>>]
ArgPadB == pad_cache[<<ret.args[3], ret.args[4]>>]
ArgNetObjs == NetObjs(objects, ArgPadA, ArgPadB)

\* The graph of a strategy joins the two pads of the last call.
Joins(strategy_name) ==
    IndexOf(ArgNetObjs, ArgPadB)
        \in Reach(BuildGraph(strategy_name, ArgNetObjs), {IndexOf(ArgNetObjs, ArgPadA)})

\* Consecutive objects of a path are linked in the graph of a strategy.
PathIn(strategy_name, path) ==
    LET G == BuildGraph(strategy_name, ArgNetObjs)
    IN \A i \in 1..(Len(path) - 1) :
         \E e \in G.edges : {e[1], e[2]} = {IndexOf(ArgNetObjs, path[i]),
                                            IndexOf(ArgNetObjs, path[i + 1])}

\* C1: whenever extract_traces_between_pads computes a result for two pads of
\* one net, (a) if the exact-endpoint graph joins the pads, that graph is the
\* only one built and the result is the length of a path of it; (b) if it does
\* not and the tolerance graph does, both are built, in that order, and the
\* result is the length of a path of the tolerance graph; (c) the result is
\* None exactly when neither graph joins the pads.
C1_StrategyOrder ==
    Computed =>
      /\ Joins("build_accurate_graph") =>
           /\ ret.loop.tried = <<"build_accurate_graph">>
           /\ ret.loop.strategy_used = "build_accurate_graph"
           /\ ~IsNone(ret.result)
           /\ PathIn("build_accurate_graph", ret.loop.best_path)
      /\ (~Joins("build_accurate_graph") /\ Joins("build_bidirectional_graph")) =>
           /\ ret.loop.tried = <<"build_accurate_graph", "build_bidirectional_graph">>
           /\ ret.loop.strategy_used = "build_bidirectional_graph"
           /\ ~IsNone(ret.result)
           /\ PathIn("build_bidirectional_graph", ret.loop.best_path)
      /\ IsNone(ret.result) <=>
           (~Joins("build_accurate_graph") /\ ~Joins("build_bidirectional_graph"))

\* A call that the tolerance graph decided.
C1_Witness ==
    /\ Computed
    /\ ~Joins("build_accurate_graph")
    /\ Joins("build_bidirectional_graph")
    /\ ret.loop.strategy_used = "build_bidirectional_graph"
    /\ ~IsNone(ret.result)

\* The summed length fields of the tracks and arcs of a path, from position i on.
RECURSIVE CopperFrom(_, _)
CopperFrom(path, i) ==
    IF i > Len(path) THEN 0
    ELSE (IF path[i].type \in {"Track", "Arc"} THEN path[i].length ELSE 0)
         + CopperFrom(path, i + 1)

\* C2: whenever extract_traces_between_pads computes a number, the number is
\* 0.0254 mm per mil times the sum of the length fields of the Track and Arc
\* objects of the winning path (pads and vias add nothing), and the winning
\* path starts and ends at the two pads asked about.
C2_LengthIsCopperOfWinningPath ==
    (Computed /\ ~IsNone(ret.result)) =>
      /\ Value(ret.result) = MILS_TO_MM * CopperFrom(ret.loop.best_path, 1)
      /\ SameObject(ret.loop.best_path[1], ArgPadA)
      /\ SameObject(ret.loop.best_path[Len(ret.loop.best_path)], ArgPadB)

\* A computed length whose winning path holds a track, a via and an arc.
C2_Witness ==
    /\ Computed
    /\ ~IsNone(ret.result)
    /\ \E i, j, k \in DOMAIN ret.loop.best_path :
         /\ ret.loop.best_path[i].type = "Track"
         /\ ret.loop.best_path[j].type = "Via"
         /\ ret.loop.best_path[k].type = "Arc"
    /\ Value(ret.result) = MILS_TO_MM * (Mil + Mil + Mil \div 2)

LoadOps == {"load_json_file", "import_from_altium_designer", "_process_pcb_data"}

\* The last call was a load that ran to its end.
LoadCompleted == ret.op \in LoadOps /\ ret.raised = "" /\ ~ret.printed_error

\* The last call was a load that failed: the file was unreadable, or a record
\* lacked a required field.
LoadFailed == ret.op \in LoadOps /\ (ret.raised # "" \/ ret.printed_error)

\* The pad of the loaded board with an identifier, if there is one.
BoardPad(c, p) == FindPad(pads, c, p)

\* C3: whenever extract_traces_between_pads is called with the identifiers of
\* two pads of the loaded board whose net names differ, it returns None.
C3_DifferentNetsGiveNone ==
    (/\ ret.op = "extract_traces_between_pads"
     /\ ~IsNone(BoardPad(ret.args[1], ret.args[2]))
     /\ ~IsNone(BoardPad(ret.args[3], ret.args[4]))
     /\ Value(BoardPad(ret.args[1], ret.args[2])).net_name
          # Value(BoardPad(ret.args[3], ret.args[4])).net_name)
    => IsNone(ret.result)

\* A call for two pads of different nets that found nothing cached.
C3_Witness ==
    /\ ret.op = "extract_traces_between_pads"
    /\ ~ret.computed
    /\ ~IsNone(BoardPad(ret.args[1], ret.args[2]))
    /\ ~IsNone(BoardPad(ret.args[3], ret.args[4]))
    /\ Value(BoardPad(ret.args[1], ret.args[2])).net_name
         # Value(BoardPad(ret.args[3], ret.args[4])).net_name
    /\ IsNone(ret.result)
    /\ Cardinality(DOMAIN connection_cache) = 1
    /\ nloads = 1

\* The summed length fields of the Track and Arc entries of a list of path
\* elements, from position i on.
RECURSIVE ElementsCopperFrom(_, _)
ElementsCopperFrom(elements, i) ==
    IF i > Len(elements) THEN 0
    ELSE (IF elements[i].type \in {"Track", "Arc"} THEN elements[i].length ELSE 0)
         + ElementsCopperFrom(elements, i + 1)

\* C4: whenever get_trace_path reports a path for a pad pair, the sum of the
\* length fields of the Track and Arc elements it lists, converted to
\* millimetres, is the value extract_traces_between_pads returns for the pair.
C4_PathElementsSumToLength ==
    (ret.op = "get_trace_path" /\ ret.path_exists) =>
      \A out \in extract_traces_between_pads(Self, ret.args[1], ret.args[2],
                                             ret.args[3], ret.args[4]) :
        out.result = Some(MILS_TO_MM * ElementsCopperFrom(ret.path_elements, 1))

\* get_trace_path reported a path with two tracks in it.
C4_Witness ==
    /\ ret.op = "get_trace_path"
    /\ ret.path_exists
    /\ Cardinality({i \in DOMAIN ret.path_elements : ret.path_elements[i].type = "Track"}) = 2

C6_LoadLeavesNoStaleEntries ==
    LoadCompleted =>
      /\ connection_cache = <<>>
      /\ path_cache = <<>>
      /\ \A k \in DOMAIN pad_cache : \E i \in DOMAIN pads : pads[i] = pad_cache[k]

\* A completed load after a query on the board before it.
C6_Witness == LoadCompleted /\ nloads = 2 /\ ncalls = 1 /\ connection_cache = <<>>

AllEmpty ==
    /\ objects = <<>>
    /\ pads = <<>>
    /\ pad_cache = <<>>
    /\ connection_cache = <<>>
    /\ path_cache = <<>>

\* C7: a load that fails leaves the object set, the pad list and the caches
\* exactly as they were before the call, or all empty.
C7_FailedLoadAllOrNothing ==
    [][(LoadFailed' /\ nloads' = nloads + 1) =>
         \/ UNCHANGED <<objects, pads, pad_cache, connection_cache, path_cache, pcb_data, server>>
         \/ AllEmpty']_vars

\* A failed load that changed nothing.
C7_Witness == LoadFailed /\ ret.printed_error /\ nloads = 2 /\ objects # <<>>

QueryOps == {"extract_traces_between_pads", "get_trace_path",
             "calculate_trace_impedance", "analyze_multi_net_path"}

\* C8: no call of extract_traces_between_pads, get_trace_path,
\* calculate_trace_impedance or analyze_multi_net_path raises.
C8_QueriesNeverRaise == ret.op \in QueryOps => ret.raised = ""

\* analyze_multi_net_path returned a result on a board without jumper points.
C8_Witness ==
    /\ ret.op = "analyze_multi_net_path"
    /\ ret.raised = ""
    /\ ~IsNone(ret.result)
    /\ Len(ret.path) = 2

\* Every path without a repeated node from the last node of `sofar` to `target`.
RECURSIVE SimplePaths(_, _, _)
SimplePaths(G, sofar, target) ==
    LET at == sofar[Len(sofar)]
        seen == {sofar[i] : i \in DOMAIN sofar}
        next == {nb[1] : nb \in Neighbours(G, at)} \ seen
    IN IF at = target THEN {sofar}
       ELSE UNION {SimplePaths(G, Append(sofar, v), target) : v \in next}

\* C9: whenever extract_traces_between_pads computes a number, no path between
\* the two pads in the graph of the strategy that produced it has a smaller
\* summed Track and Arc length.
C9_ResultIsMinimumCopper ==
    (Computed /\ ~IsNone(ret.result)) =>
      LET G == BuildGraph(ret.loop.strategy_used, ArgNetObjs)
          all == SimplePaths(G, <<IndexOf(ArgNetObjs, ArgPadA)>>,
                             IndexOf(ArgNetObjs, ArgPadB))
      IN \A p \in all :
           Value(ret.result)
             <= MILS_TO_MM * CopperFrom([i \in DOMAIN p |-> ArgNetObjs[p[i]]], 1)

\* A computed length for two pads that more than one path joins.
C9_Witness ==
    /\ Computed
    /\ ~IsNone(ret.result)
    /\ Cardinality(SimplePaths(BuildGraph(ret.loop.strategy_used, ArgNetObjs),
                               <<IndexOf(ArgNetObjs, ArgPadA)>>,
                               IndexOf(ArgNetObjs, ArgPadB))) > 1

\* C10: after any loads, every object of the model has a non-empty net name
\* and every Track and Arc has a length above 1e-6 mil; and no load fails on a
\* record (records without a net name are left out instead).
C10_ObjectsHaveNetAndLength ==
    /\ \A i \in DOMAIN objects :
         /\ objects[i].net_name # ""
         /\ IsTrackOrArc(objects[i]) => objects[i].length > MIN_LENGTH
    /\ ret.op \in LoadOps => ret.raised = ""

\* A completed load of board data that holds records the loader leaves out.
C10_Witness ==
    /\ LoadCompleted
    /\ ret.op # "import_from_altium_designer"
    /\ Len(objects) = 4
    /\ \E i \in DOMAIN objects : objects[i].type = "Track" /\ objects[i].length = 2

\* ------------------------------------------------ analysis with jumper points

\* analyze_multi_net_path called with a list of jumper points, on an extractor
\* that has loaded a board.

JumperBoards == {BoardMain, BoardVia}

\* jumper_points arguments: pads U1.1 and U1.2 (on two nets) either way round,
\* U1.1 and U2.1 (on one net), and an empty list.
JumperLists ==
    {<<<<"U1", "1">>, <<"U1", "2">>>>, <<<<"U1", "2">>, <<"U1", "1">>>>,
     <<<<"U1", "1">>, <<"U2", "1">>>>, <<>>}

\* extractor = PCBTraceExtractor(); extractor.load_json_file(path)
InitJumpers ==
    \E data \in JumperBoards :
       LET got == Parsed(JsonItems(data))
       IN /\ rev = "root"
          /\ objects = got.objects
          /\ pads = got.pads
          /\ pad_cache = got.pad_cache
          /\ connection_cache = <<>>
          /\ path_cache = <<>>
          /\ has_path_cache = FALSE
          /\ ret = Ret("load_json_file", <<>>)
          /\ nloads = 1
          /\ ncalls = 0
          /\ answered = <<>>
          /\ loading = None
          /\ threads = <<>>
          /\ pcb_data = None
          /\ NoServer

\* extractor.analyze_multi_net_path(start_comp, start_pad, end_comp, end_pad,
\*                                  jumper_points=points)
AnalyzeWithJumperPoints(start_comp, start_pad, end_comp, end_pad, points) ==
    /\ rev = "root"
    /\ ncalls < MaxCalls
    /\ nloads > 0
    /\ \E out \in analyze_multi_net_path_with(Self, start_comp, start_pad, end_comp, end_pad,
                                              [hashable |-> TRUE, points |-> points]) :
         /\ Adopt(out.self)
         /\ ret' = [Ret("analyze_multi_net_path",
                        <<start_comp, start_pad, end_comp, end_pad, points>>) EXCEPT
                      !.result = out.result, !.raised = out.raised,
                      !.net_segments = out.net_segments, !.path = out.path,
                      !.jumper_edges = out.jumper_edges]
    /\ ncalls' = ncalls + 1
    /\ UNCHANGED <<nloads, answered, pcb_data, server>>

NextJumpers ==
    \/ \E t1 \in Terminals, t2 \in Terminals, points \in JumperLists :
         AnalyzeWithJumperPoints(t1[1], t1[2], t2[1], t2[2], points)
    \/ \E t1 \in Terminals, t2 \in Terminals :
         AnalyzeMultiNetPath(t1[1], t1[2], t2[1], t2[2])

SpecJumpers == InitJumpers /\ [][NextJumpers]_vars

\* ------------------------------------------------- impedance of one track
\* The two impedance functions called on their own, as the unit tests call
\* them: a track on some layer, a stackup made of the default layers with the
\* track's layer given a height and a dielectric constant, the same track
\* with another width, and the same stackup with the height of the entry
\* numbered 2 doubled.
ImpedanceLayers == {1, 2, 4, 9}
ImpedanceWidths == {-3 * Mil, 0, Mil \div 10, Mil \div 5, 5 * Mil, 10 * Mil, 100 * Mil}
ImpedanceHeights == {-Mil, 0, Mil \div 10, 6 * Mil, 10 * Mil, 200 * Mil}
ImpedanceConstants == {-10, 0, 10, 42, 45}

\* layer.height = height; layer.dielectric_constant = er, for the entry
\* numbered layer_number
WithLayer(stackup, layer_number, height, er) ==
    [i \in DOMAIN stackup |->
        IF stackup[i].layer_number = layer_number
        THEN [stackup[i] EXCEPT !.height = height, !.dielectric_constant = er]
        ELSE stackup[i]]

\* self.default_layers[1].height = original_height * 2
DoubledHeight(stackup) ==
    [i \in DOMAIN stackup |->
        IF i = 2 THEN [stackup[i] EXCEPT !.height = 2 * stackup[i].height]
        ELSE stackup[i]]

TestTrack(layer, width) ==
    [type |-> "Track", net_name |-> "TEST", layer |-> layer, length |-> 100 * Mil,
     width |-> width]

InitImpedance ==
    \E layer \in ImpedanceLayers, width \in ImpedanceWidths, wider \in ImpedanceWidths,
       height \in ImpedanceHeights, er \in ImpedanceConstants :
       /\ width < wider
       /\ rev = "root"
       /\ objects = <<>>
       /\ pads = <<>>
       /\ pad_cache = <<>>
       /\ connection_cache = <<>>
       /\ path_cache = <<>>
       /\ has_path_cache = FALSE
       /\ ret = Ret("__init__", <<layer, width, wider, height, er>>)
       /\ nloads = 0
       /\ ncalls = 0
       /\ answered = <<>>
       /\ loading = None
       /\ threads = <<>>
       /\ pcb_data = None
       /\ NoServer

\* The stackup of a run, and the tracks of a run
StackupOf(args) == WithLayer(default_layers, args[1], args[4], args[5])

\* impedance = extractor.calculate_microstrip_impedance(track, stackup), then
\* the same with the wider track, then with the thicker stackup
CalculateMicrostripImpedance ==
    /\ ret.op = "__init__"
    /\ ret' = [Ret("calculate_microstrip_impedance", ret.args) EXCEPT
                 !.result =
                    Some([impedance |-> calculate_microstrip_impedance(
                                            TestTrack(ret.args[1], ret.args[2]),
                                            StackupOf(ret.args)),
                          wider |-> calculate_microstrip_impedance(
                                            TestTrack(ret.args[1], ret.args[3]),
                                            StackupOf(ret.args)),
                          thick |-> calculate_microstrip_impedance(
                                            TestTrack(ret.args[1], ret.args[2]),
                                            DoubledHeight(StackupOf(ret.args)))])]
    /\ UNCHANGED <<rev, objects, pads, pad_cache, connection_cache, path_cache,
                   has_path_cache, nloads, ncalls, answered, loading, threads, pcb_data, server>>

\* impedance = extractor.calculate_stripline_impedance(track, stackup), then
\* the same with the wider track, then with the thicker stackup
CalculateStriplineImpedance ==
    /\ ret.op = "__init__"
    /\ ret' = [Ret("calculate_stripline_impedance", ret.args) EXCEPT
                 !.result =
                    Some([impedance |-> calculate_stripline_impedance(
                                            TestTrack(ret.args[1], ret.args[2]),
                                            StackupOf(ret.args)),
                          wider |-> calculate_stripline_impedance(
                                            TestTrack(ret.args[1], ret.args[3]),
                                            StackupOf(ret.args)),
                          thick |-> calculate_stripline_impedance(
                                            TestTrack(ret.args[1], ret.args[2]),
                                            DoubledHeight(StackupOf(ret.args)))])]
    /\ UNCHANGED <<rev, objects, pads, pad_cache, connection_cache, path_cache,
                   has_path_cache, nloads, ncalls, answered, loading, threads, pcb_data, server>>

NextImpedance ==
    \/ CalculateMicrostripImpedance
    \/ CalculateStriplineImpedance

SpecImpedance == InitImpedance /\ [][NextImpedance]_vars

\* ------------------------------------------------------- nets and lengths
\* A backend extractor made from board data, PCBTraceExtractor(pcb_data), and
\* the calls get_nets, calculate_trace_lengths and
\* extract_traces_between_pads on it.
NetNames == {"N1", "N2", "N9"}

InitNets ==
    \E data \in JsonBoards :
       LET got == Parsed(JsonItems(data))
       IN /\ rev = "backend"
          /\ pcb_data = Some(data)
          /\ objects = got.objects
          /\ pads = got.pads
          /\ pad_cache = got.pad_cache
          /\ connection_cache = <<>>
          /\ path_cache = <<>>
          /\ has_path_cache = FALSE
          /\ ret = Ret("__init__", <<>>)
          /\ nloads = 1
          /\ ncalls = 0
          /\ answered = <<>>
          /\ loading = None
          /\ threads = <<>>
          /\ NoServer

\* extractor.get_nets()
GetNets ==
    /\ rev = "backend"
    /\ ncalls < MaxCalls
    /\ ret' = [Ret("get_nets", <<>>) EXCEPT !.result = Some(get_nets(pcb_data))]
    /\ ncalls' = ncalls + 1
    /\ UNCHANGED <<rev, objects, pads, pad_cache, connection_cache, path_cache, nloads,
                   answered, has_path_cache, loading, threads, pcb_data, server>>

\* extractor.calculate_trace_lengths(net_name)
CalculateTraceLengths(net_name) ==
    /\ rev = "backend"
    /\ ncalls < MaxCalls
    /\ \E out \in calculate_trace_lengths(Self, pcb_data, net_name) :
         /\ Adopt(out.self)
         /\ ret' = [Ret("calculate_trace_lengths", <<net_name>>) EXCEPT
                      !.result = Some(out.result), !.returned = out.returned]
    /\ ncalls' = ncalls + 1
    /\ UNCHANGED <<nloads, answered>>

NextNets ==
    \/ GetNets
    \/ \E net_name \in NetNames : CalculateTraceLengths(net_name)
    \/ \E t1 \in Terminals, t2 \in Terminals : ExtractTraces(t1[1], t1[2], t2[1], t2[2])

SpecNets == InitNets /\ [][NextNets]_vars

\* ------------------------------------------- queries running side by side

\* Several threads call extract_traces_between_pads and get_trace_path of
\* src/backend/trace_extractor.py on one extractor.  Nothing is locked; a step
\* of a thread is one read or write of an attribute the threads share, with
\* the thread-local work that follows it.

MaxThreads == 2
MaxThreadCalls == 3

ThreadBoards == {BoardMain, BoardVia}

\* The pad pairs the threads ask about: two joined pairs, one of them also the
\* other way round, and a pair on two nets.
ThreadQueries ==
    {<<"U1", "1", "U2", "1">>, <<"U2", "1", "U1", "1">>, <<"U1", "2", "U3", "1">>,
     <<"U1", "1", "U1", "2">>}

Idle == [pc |-> "idle", op |-> "", args |-> <<>>, length |-> None, best |-> None,
         tmp |-> "", result |-> None]

\* PCBTraceExtractor(pcb_data), then threads that have not called anything.
InitThreads ==
    \E data \in ThreadBoards :
       LET got == Parsed(JsonItems(data))
       IN /\ rev = "backend"
          /\ objects = got.objects
          /\ pads = got.pads
          /\ pad_cache = got.pad_cache
          /\ connection_cache = <<>>
          /\ path_cache = <<>>
          /\ has_path_cache = FALSE
          /\ ret = Ret("_process_pcb_data", <<>>)
          /\ nloads = 1
          /\ ncalls = 0
          /\ answered = <<>>
          /\ loading = None
          /\ threads = [t \in 1..MaxThreads |-> Idle]
          /\ pcb_data = None
          /\ NoServer

ThreadKey(t) == CacheKey(threads[t].args[1], threads[t].args[2],
                         threads[t].args[3], threads[t].args[4])

\* What get_trace_path returns: no path, a path with its elements, or a length
\* without elements.
NoPathResult == [path_exists |-> FALSE, length |-> None, path_elements |-> <<>>,
                 strategy_used |-> "None"]

PathDetails(entry) ==
    IF entry[1] = <<>> THEN NoPathResult
    ELSE [path_exists |-> TRUE, length |-> Some(calculate_path_length(entry[1])),
          path_elements |-> [i \in DOMAIN entry[1] |-> BackendElement(i - 1, entry[1][i])],
          strategy_used |-> entry[2]]

LengthOnly(length) ==
    [path_exists |-> TRUE, length |-> length, path_elements |-> <<>>,
     strategy_used |-> "None"]

\* The thread goes on to another statement, or returns a value.
Goto(t, pc) == threads' = [threads EXCEPT ![t].pc = pc]
Return(t, value) == threads' = [threads EXCEPT ![t].pc = "done", ![t].result = Some(value)]

\* What the thread does once extract_traces_between_pads has its length:
\* extract returns it, get_trace_path goes on at "if length is None".
AfterExtract(t, length) ==
    IF threads[t].op = "extract_traces_between_pads" THEN Return(t, length)
    ELSE IF IsNone(length) THEN Return(t, NoPathResult)
    ELSE threads' = [threads EXCEPT ![t].pc = "recheck", ![t].length = length]

\* A thread calls one of the two queries.
ThreadCall(t, op, args) ==
    /\ threads[t].pc \in {"idle", "done"}
    /\ ncalls < MaxThreadCalls
    /\ ncalls' = ncalls + 1
    /\ threads' = [threads EXCEPT ![t] =
                     [Idle EXCEPT !.op = op, !.args = args,
                                  !.pc = IF op = "get_trace_path" THEN "path_cache"
                                         ELSE "connection_cache"]]
    /\ UNCHANGED <<rev, objects, pads, pad_cache, connection_cache, path_cache, ret, nloads,
                   answered, has_path_cache, loading, pcb_data, server>>

\* get_trace_path: "if cache_key in path_cache"
ReadPathCache(t) ==
    /\ threads[t].pc = "path_cache"
    /\ IF has_path_cache /\ ThreadKey(t) \in DOMAIN path_cache
       THEN Return(t, PathDetails(path_cache[ThreadKey(t)]))
       ELSE Goto(t, "connection_cache")
    /\ UNCHANGED <<rev, objects, pads, pad_cache, connection_cache, path_cache, ret, nloads,
                   ncalls, answered, has_path_cache, loading, pcb_data, server>>

\* extract_traces_between_pads: "if cache_key in self.connection_cache"
ReadConnectionCache(t) ==
    /\ threads[t].pc = "connection_cache"
    /\ IF ThreadKey(t) \in DOMAIN connection_cache
       THEN AfterExtract(t, connection_cache[ThreadKey(t)])
       ELSE Goto(t, "compute")
    /\ UNCHANGED <<rev, objects, pads, pad_cache, connection_cache, path_cache, ret, nloads,
                   ncalls, answered, has_path_cache, loading, pcb_data, server>>


\* extract_traces_between_pads from the pad lookup to the end of the strategy
\* loop.  A pad that is not found, or pads on two nets, end the call here with
\* None stored under the key.
Compute(t) ==
    /\ threads[t].pc = "compute"
    /\ \E out \in extract_traces_between_pads(
                     [Self EXCEPT !.connection_cache = <<>>, !.path_cache = <<>>],
                     threads[t].args[1], threads[t].args[2],
                     threads[t].args[3], threads[t].args[4]) :
         /\ pad_cache' = out.self.pad_cache
         /\ IF ~out.computed
            THEN /\ connection_cache' = Put(connection_cache, ThreadKey(t), None)
                 /\ AfterExtract(t, None)
            ELSE /\ UNCHANGED connection_cache
                 /\ threads' = [threads EXCEPT
                      ![t].length = out.result,
                      ![t].best = IF ThreadKey(t) \in DOMAIN out.self.path_cache
                                  THEN Some(out.self.path_cache[ThreadKey(t)]) ELSE None,
                      ![t].pc = IF ThreadKey(t) \in DOMAIN out.self.path_cache
                                THEN "getattr" ELSE "store_length"]
    /\ UNCHANGED <<rev, objects, pads, path_cache, ret, nloads, ncalls, answered,
                   has_path_cache, loading, pcb_data, server>>

\* getattr(self, 'path_cache', {}): the dictionary the extractor has, or a new one
GetAttr(t) ==
    /\ threads[t].pc = "getattr"
    /\ threads' = [threads EXCEPT ![t].pc = "setattr",
                                  ![t].tmp = IF has_path_cache THEN "self" ELSE "new"]
    /\ UNCHANGED <<rev, objects, pads, pad_cache, connection_cache, path_cache, ret, nloads,
                   ncalls, answered, has_path_cache, loading, pcb_data, server>>

\* self.path_cache = <what getattr gave>
SetAttr(t) ==
    /\ threads[t].pc = "setattr"
    /\ Goto(t, "store_path")
    /\ path_cache' = IF threads[t].tmp = "new" THEN <<>> ELSE path_cache
    /\ has_path_cache' = TRUE
    /\ UNCHANGED <<rev, objects, pads, pad_cache, connection_cache, ret, nloads, ncalls,
                   answered, loading, pcb_data, server>>

\* self.path_cache[cache_key] = (best_path, strategy_used)
StorePath(t) ==
    /\ threads[t].pc = "store_path"
    /\ Goto(t, "store_length")
    /\ path_cache' = Put(path_cache, ThreadKey(t), Value(threads[t].best))
    /\ UNCHANGED <<rev, objects, pads, pad_cache, connection_cache, ret, nloads, ncalls,
                   answered, has_path_cache, loading, pcb_data, server>>

\* self.connection_cache[cache_key] = shortest_length, and the return
StoreLength(t) ==
    /\ threads[t].pc = "store_length"
    /\ connection_cache' = Put(connection_cache, ThreadKey(t), threads[t].length)
    /\ AfterExtract(t, threads[t].length)
    /\ UNCHANGED <<rev, objects, pads, pad_cache, path_cache, ret, nloads, ncalls,
                   answered, has_path_cache, loading, pcb_data, server>>

\* get_trace_path: "if cache_key in getattr(self, 'path_cache', {})" after
\* extract_traces_between_pads returned a length
Recheck(t) ==
    /\ threads[t].pc = "recheck"
    /\ IF has_path_cache /\ ThreadKey(t) \in DOMAIN path_cache
       THEN Return(t, PathDetails(path_cache[ThreadKey(t)]))
       ELSE Return(t, LengthOnly(threads[t].length))
    /\ UNCHANGED <<rev, objects, pads, pad_cache, connection_cache, path_cache, ret, nloads,
                   ncalls, answered, has_path_cache, loading, pcb_data, server>>

NextThreads ==
    \E t \in 1..MaxThreads :
       \/ \E op \in {"extract_traces_between_pads", "get_trace_path"},
             args \in ThreadQueries : ThreadCall(t, op, args)
       \/ ReadPathCache(t)
       \/ ReadConnectionCache(t)
       \/ Compute(t)
       \/ GetAttr(t)
       \/ SetAttr(t)
       \/ StorePath(t)
       \/ StoreLength(t)
       \/ Recheck(t)

SpecThreads == InitThreads /\ [][NextThreads]_vars

\* ---------------------------------------------- properties of a racing load

\* What a call of extract_traces_between_pads for the pair of a cache key can
\* return on the model as it stands, computed with nothing cached.
Fresh(key) ==
    {out.result :
       out \in extract_traces_between_pads([Self EXCEPT !.connection_cache = <<>>],
                                           key[1][1], key[1][2], key[2][1], key[2][2])}

\* The model holds exactly what a load of some board leaves.
WholeBoard ==
    \E data \in RaceBoards :
       LET got == Parsed(JsonItems(data))
       IN ~got.raised /\ objects = got.objects /\ pads = got.pads
          /\ pad_cache = got.pad_cache

\* A load has just returned.
LoadReturned == loading = None /\ ret.op = "load_json_file" /\ ret.raised = ""

\* C11: when a load runs beside queries on the same extractor, (a) no query
\* observes a model that holds only part of the new board or a mix of the old
\* and the new board, and (b) when the load has returned, no cache entry holds
\* a result that was computed from such a model: every entry of
\* connection_cache is what the loaded board gives for its pair.
C11_LoadIsAtomicForQueries ==
    /\ [](LoadReturned => \A key \in DOMAIN connection_cache :
                             connection_cache[key] \in Fresh(key))
    /\ [][(ncalls' = ncalls + 1 /\ loading # None) => WholeBoard]_vars

\* A query ran between two statements of a load and its answer, computed from
\* part of the board, is in the cache when the load has returned.
C11_Witness ==
    /\ LoadReturned
    /\ WholeBoard
    /\ ncalls > 0
    /\ \E key \in DOMAIN connection_cache : connection_cache[key] \notin Fresh(key)

\* ------------------------------------------ properties of concurrent queries

\* The extractor as it was constructed: the board, with nothing cached.
Constructed == [Self EXCEPT !.connection_cache = <<>>, !.path_cache = <<>>]

\* What a query returns when the queries run one after another: what the
\* first call for its pair of pads computed, whichever way round that call
\* named the pads.  (On the boards of SpecThreads no two routes have equal
\* weight, so a call computes one result.)
BothWays(args) == {args, <<args[3], args[4], args[1], args[2]>>}

AloneExtract(args) ==
    UNION {{out.result :
              out \in extract_traces_between_pads(Constructed, a[1], a[2], a[3], a[4])} :
             a \in BothWays(args)}

AloneGetTracePath(args) ==
    UNION {{[path_exists |-> info.path_exists, length |-> info.length,
             path_elements |-> info.path_elements, strategy_used |-> info.strategy_used] :
              info \in get_trace_path_backend(Constructed, a[1], a[2], a[3], a[4])} :
             a \in BothWays(args)}

\* C12: when several extract_traces_between_pads and get_trace_path queries
\* run side by side on one loaded board, in any interleaving of their cache
\* reads and writes, every query returns what it returns when the queries run
\* one after another; in particular get_trace_path never reports path_exists
\* true with no path elements.
C12_ConcurrentQueriesAsSequential ==
    \A t \in DOMAIN threads :
       threads[t].pc = "done" =>
         /\ threads[t].op = "extract_traces_between_pads" =>
              Value(threads[t].result) \in AloneExtract(threads[t].args)
         /\ threads[t].op = "get_trace_path" =>
              /\ Value(threads[t].result) \in AloneGetTracePath(threads[t].args)
              /\ Value(threads[t].result).path_exists =>
                   Value(threads[t].result).path_elements # <<>>

\* Two threads have each stored a path, and only one of the two is in
\* path_cache although both lengths are in connection_cache.
C12_Witness ==
    /\ threads # <<>>
    /\ \A t \in DOMAIN threads : threads[t].pc = "done"
    /\ \E k1 \in DOMAIN connection_cache, k2 \in DOMAIN connection_cache :
         /\ k1 # k2
         /\ ~IsNone(connection_cache[k1]) /\ ~IsNone(connection_cache[k2])
         /\ k1 \notin DOMAIN path_cache
         /\ k2 \in DOMAIN path_cache

\* ------------------------------------------ properties of multi-net analysis

Analyzed == ret.op = "analyze_multi_net_path"

PadId(pad) == <<pad.designator, pad.pad_number>>

\* The pairs of pads of one component that lie on different nets less than
\* 100 mils apart.
ProximatePairs ==
    {{PadId(pads[ij[1]]), PadId(pads[ij[2]])} :
       ij \in {ij \in (DOMAIN pads) \X (DOMAIN pads) :
                 /\ pads[ij[1]].designator = pads[ij[2]].designator
                 /\ pads[ij[1]].net_name # pads[ij[2]].net_name
                 /\ Abs(pads[ij[1]].location - pads[ij[2]].location) < 100 * Mil}}

\* The net of the pad a node of the pad graph stands for.
NetOfNode(node) ==
    pads[CHOOSE i \in DOMAIN pads :
           PadId(pads[i]) = node /\ \A j \in DOMAIN pads : PadId(pads[j]) = node => j <= i].net_name

\* C13: when analyze_multi_net_path is called without jumper points, the graph
\* it builds has a zero-weight edge between two pads exactly for every pair of
\* pads of one component that lie on different nets less than 100 mils apart,
\* and both ends of every such edge are pad identifiers that are nodes of the
\* graph.
C13_JumperEdgesJoinProximatePads ==
    (Analyzed /\ Len(ret.args) = 4) =>
      /\ ret.jumper_edges = ProximatePairs
      /\ \A e \in ret.jumper_edges : \A node \in e : \E i \in DOMAIN pads : PadId(pads[i]) = node

\* A call without jumper points on a board that has a proximate pair.
C13_Witness ==
    /\ Analyzed
    /\ Len(ret.args) = 4
    /\ ProximatePairs # {}
    /\ ret.raised = "TypeError"

\* C14: whenever analyze_multi_net_path returns a result, its net_segments are
\* in path order and every node of the path appears in a segment (the node
\* lists of the segments, one after the other, are the path), every node of a
\* segment is a pad on that segment's net, consecutive segments are separated
\* exactly at the steps of the path that join pads of different nets, and
\* total_length is the sum of the segment lengths.
C14_SegmentsDecomposePath ==
    (Analyzed /\ ~IsNone(ret.result)) =>
      LET segs == ret.net_segments
      IN /\ Flatten([k \in DOMAIN segs |-> segs[k][2]]) = ret.path
         /\ \A k \in DOMAIN segs : \A i \in DOMAIN segs[k][2] :
              NetOfNode(segs[k][2][i]) = segs[k][1]
         /\ \A k \in 1..(Len(segs) - 1) : segs[k][1] # segs[k + 1][1]
         /\ Value(ret.result) = SumSeq([k \in DOMAIN segs |-> segs[k][3]])

\* A result whose path starts with a step across a jumper: the first pad of
\* the path is in no segment.
C14_Witness ==
    /\ Analyzed
    /\ ~IsNone(ret.result)
    /\ Len(ret.path) >= 2
    /\ NetOfNode(ret.path[1]) # NetOfNode(ret.path[2])
    /\ \A k \in DOMAIN ret.net_segments :
         \A i \in DOMAIN ret.net_segments[k][2] : ret.net_segments[k][2][i] # ret.path[1]

\* ------------------------------------------------ properties of impedance
Microstrip == ret.op = "calculate_microstrip_impedance"
Stripline == ret.op = "calculate_stripline_impedance"

\* C15: whatever the width, the layer's height and its dielectric constant
\* (zero and negative ones included, and a layer that is not in the stackup),
\* calculate_microstrip_impedance returns a value from 20 to 120 ohms and
\* calculate_stripline_impedance a value from 25 to 120 ohms, and neither
\* raises.
C15_ImpedanceIsBounded ==
    /\ Microstrip =>
          /\ ret.raised = ""
          /\ \A z \in {Value(ret.result).impedance, Value(ret.result).wider,
                       Value(ret.result).thick} : 20000 <= z /\ z <= 120000
    /\ Stripline =>
          /\ ret.raised = ""
          /\ \A z \in {Value(ret.result).impedance, Value(ret.result).wider,
                       Value(ret.result).thick} : 25000 <= z /\ z <= 120000

\* A microstrip call whose formula is far above the range (a width of zero, a
\* height of 200 mil) has returned.
C15_Witness ==
    /\ Microstrip
    /\ ret.args[1] = 1 /\ ret.args[2] = 0 /\ ret.args[4] = 200 * Mil /\ ret.args[5] = 42
    /\ Value(ret.result).impedance = 120000

\* C16: of two tracks that differ in width only, on one stackup, the narrower
\* one gets the strictly higher value from calculate_microstrip_impedance and
\* from calculate_stripline_impedance.
C16_NarrowerIsStrictlyHigher ==
    (Microstrip \/ Stripline) => Value(ret.result).impedance > Value(ret.result).wider

\* Both functions have been called for a 5 mil and a 10 mil track on a layer
\* of the default stackup, where the narrower one does come out higher.
C16_Witness ==
    /\ Stripline
    /\ ret.args = <<4, 5 * Mil, 10 * Mil, 10 * Mil, 45>>
    /\ Value(ret.result).impedance > Value(ret.result).wider

\* C17: for a microstrip track on layer 1, doubling the height of the stackup
\* entry numbered 2 makes calculate_microstrip_impedance return a strictly
\* higher value.
C17_ThickerDielectricIsStrictlyHigher ==
    (Microstrip /\ ret.args[1] = 1) => Value(ret.result).thick > Value(ret.result).impedance

\* The 10 mil track on the top layer of the default stackup has been
\* calculated with both stackups.
C17_Witness ==
    /\ Microstrip
    /\ ret.args[1] = 1 /\ ret.args[2] = 10 * Mil /\ ret.args[4] = 6 * Mil /\ ret.args[5] = 42
    /\ Value(ret.result).impedance \in 54000..54250

\* ------------------------------------- properties of calculate_trace_impedance
Impedance == ret.op = "calculate_trace_impedance"

\* The Tracks of a path
TracksOf(path) == SelectSeq(path, LAMBDA o : o.type = "Track")

\* C18: calculate_trace_impedance returns None exactly when
\* extract_traces_between_pads finds no path for the pad pair or the path it
\* finds holds no Track; otherwise its result lists one segment for each Track
\* of the path found.  (Stated for the calls in which the path is looked for,
\* the answer not being taken from connection_cache.)
C18_NoneExactlyWithoutTracks ==
    /\ (Impedance /\ IsNone(ret.trace_length)) => IsNone(ret.result)
    /\ (Impedance /\ ret.computed) =>
          /\ IsNone(ret.result) <=>
                (IsNone(ret.loop.shortest_length) \/ TracksOf(ret.loop.best_path) = <<>>)
          /\ ~IsNone(ret.result) =>
                Len(Value(ret.result).segments) = Len(TracksOf(ret.loop.best_path))

\* A call has found a path with Tracks and has returned a result.
C18_Witness ==
    /\ Impedance /\ ret.computed
    /\ TracksOf(ret.loop.best_path) # <<>>
    /\ ~IsNone(ret.result)
    /\ Len(Value(ret.result).segments) = Len(TracksOf(ret.loop.best_path))

\* An object as the loader made it: a Track without the width a later call
\* gave it.
AsLoaded(o) ==
    IF o.type = "Track" /\ HasWidth(o)
    THEN Track(o.start, o.end, o.net_name, o.layer, o.length)
    ELSE o

\* The JSON boards the extractor's objects were loaded from
BoardsLoaded ==
    {data \in JsonBoards :
        Parsed(JsonItems(data)).objects = [k \in DOMAIN objects |-> AsLoaded(objects[k])]}

\* The width the board data gives for the track of a path element
DataWidth(data, element) ==
    LET given == {t \in {data.tracks[i] : i \in DOMAIN data.tracks} :
                    HasKeys(t, {"start", "end", "netName", "layer", "length", "width"})}
        t == CHOOSE t \in given :
                t.start = element.start /\ t.end = element.end /\ t.layer = element.layer
    IN t.width

\* C19: in a result of calculate_trace_impedance, every segment's width is the
\* width the board data gives for its track, and trace_width is the mean of
\* those widths.
C19_WidthsAreTheBoardDataWidths ==
    (Impedance /\ ~IsNone(ret.result)) =>
        \A data \in BoardsLoaded :
           LET segments == Value(ret.result).segments
               widths == [i \in DOMAIN segments |-> DataWidth(data, segments[i].segment)]
           IN /\ \A i \in DOMAIN segments : segments[i].width = widths[i]
              /\ Value(ret.result).trace_width * Len(segments) = SumSeq(widths)

\* A result has been returned for a path over a track to which the board data
\* gives a width of 8 mil.
C19_Witness ==
    /\ Impedance /\ ~IsNone(ret.result)
    /\ BoardsLoaded # {}
    /\ Value(ret.result).segments # <<>>
    /\ \A data \in BoardsLoaded : \A i \in DOMAIN Value(ret.result).segments :
          DataWidth(data, Value(ret.result).segments[i].segment) = 8 * Mil

\* ------------------------------------------- properties of the unordered key
\* The arguments of a query with the two terminals exchanged
Exchanged(args) == <<args[3], args[4], args[1], args[2]>>

\* C20: between two loads, extract_traces_between_pads(c1, p1, c2, p2) and
\* extract_traces_between_pads(c2, p2, c1, p1) return the same value, None
\* included, whatever other queries are made.
C20_BothOrdersReturnTheSame ==
    /\ \A args \in DOMAIN answered :
          Exchanged(args) \in DOMAIN answered => answered[args] = answered[Exchanged(args)]
    /\ (ret.op = "extract_traces_between_pads" /\ Exchanged(ret.args) \in DOMAIN answered) =>
          ret.result = answered[Exchanged(ret.args)]

\* Two different terminals have been asked for in both orders, and a length
\* was returned.
C20_Witness ==
    /\ ret.op = "extract_traces_between_pads"
    /\ Exchanged(ret.args) # ret.args
    /\ Exchanged(ret.args) \in DOMAIN answered
    /\ ret.args \in DOMAIN answered
    /\ ~IsNone(ret.result)

\* ---------------------------------------------------- the web application
\* src/backend/main.py and src/backend/api/board_routes.py on one event loop.
\* pcb_data_store is the dictionary of main.py, shared_store the dictionary of
\* dependencies.py, active_tasks the task table of board_routes.py, background
\* the calls scheduled and not yet run (background tasks and the clean-ups
\* waiting in asyncio.sleep), now the clock in seconds.  ret is the last
\* response and ncalls counts the requests.

MaxRequests == 3
MaxTime == 1
CLEANUP_DELAY == 3600

SessionIds == {"s1", "s2"}
UploadBoards == {BoardMain, BoardTolerance}
Queries == {"q"}
TraceRequests == {<<"U1", "1", "U2", "1">>, <<"U3", "1", "U1", "2">>}

\* test_data/sample_pcb.json, when the working directory has one.
SampleFiles == {None, Some(BoardVia)}

\* SafePCBAnalyzer(pcb_data, ...).process_query(query): a text about the data
\* it was given; what the text says is not modelled.
process_query(data, query) == [analysis_of |-> data, query |-> query]

\* PCBTraceExtractor(pcb_data) of src/backend/trace_extractor.py
PCBTraceExtractor(data) ==
    [rev |-> "backend", objects |-> Parsed(JsonItems(data)).objects,
     pads |-> Parsed(JsonItems(data)).pads, pad_cache |-> Parsed(JsonItems(data)).pad_cache,
     connection_cache |-> <<>>, path_cache |-> <<>>]

\* extractor.get_components_by_net(net_name)
get_components_by_net(self, net_name) ==
    LET on_net == SelectSeq(self.objects, LAMBDA o : IsPad(o) /\ o.net_name = net_name)
        designators == Distinct([i \in DOMAIN on_net |-> on_net[i].designator])
        PadsOf(d) == SelectSeq(on_net, LAMBDA o : o.designator = d)
    IN [i \in DOMAIN designators |->
          [designator |-> designators[i],
           pads |-> [j \in DOMAIN PadsOf(designators[i]) |->
                       [padNumber |-> PadsOf(designators[i])[j].pad_number,
                        netName |-> net_name]]]]

\* What an endpoint of main.py answers for the data of a board: the value
\* returned (result) and the status of the HTTPException raised, if any.
Answer(result, raised) == [result |-> result, raised |-> raised]

NetsAnswer(data) == {Answer(Some([nets |-> get_nets(Some(data))]), "")}

ComponentsAnswer(data, net_name) ==
    {Answer(Some([components |-> get_components_by_net(PCBTraceExtractor(data), net_name)]),
            "")}

TraceAnswer(data, request) ==
    {IF info.path_exists
     THEN Answer(Some([length_mm |-> info.length, path_elements |-> info.path_elements]), "")
     ELSE Answer(None, "404") :
       info \in get_trace_path_backend(PCBTraceExtractor(data), request[1], request[2],
                                       request[3], request[4])}

\* The data the analyze endpoints take for a board: the entry of the store
\* they are given, else the sample file, else none (it cannot be opened).
DataFor(store, board_id, sample) ==
    IF board_id \in DOMAIN store THEN Some(store[board_id]) ELSE sample

AnalyzeAnswer(found, query) ==
    IF IsNone(found) THEN Answer(None, "error")
    ELSE Answer(Some([result |-> process_query(Value(found), query)]), "")

ServerFrame ==
    UNCHANGED <<rev, objects, pads, pad_cache, connection_cache, path_cache, nloads,
                answered, has_path_cache, loading, threads, pcb_data>>

\* A request was answered.
Respond(op, args, answer) ==
    /\ ret' = [Ret(op, args) EXCEPT !.result = answer.result, !.raised = answer.raised]
    /\ ncalls' = ncalls + 1
    /\ ServerFrame

InitServer == Init /\ rev = "backend"

\* POST /upload_pcb: content is the parsed file, None when it is not JSON.
upload_pcb(content) ==
    /\ ncalls < MaxRequests
    /\ IF IsNone(content)
       THEN /\ Respond("upload_pcb", <<>>, Answer(None, "400"))
            /\ UNCHANGED pcb_data_store
       ELSE \E session_id \in SessionIds \ DOMAIN pcb_data_store :
               /\ pcb_data_store' = Put(pcb_data_store, session_id, Value(content))
               /\ Respond("upload_pcb", <<>>, Answer(Some([session_id |-> session_id]), ""))
    /\ UNCHANGED <<shared_store, active_tasks, background, now>>

\* An endpoint of main.py that reads the board and changes nothing.
BoardEndpoint(op, board_id, args, answers) ==
    /\ ncalls < MaxRequests
    /\ IF board_id \notin DOMAIN pcb_data_store
       THEN Respond(op, <<board_id>> \o args, Answer(None, "404"))
       ELSE \E answer \in answers : Respond(op, <<board_id>> \o args, answer)
    /\ UNCHANGED server

\* GET /board/{board_id}/nets
main_get_nets(board_id) ==
    BoardEndpoint("get_nets", board_id, <<>>,
                  IF board_id \in DOMAIN pcb_data_store
                  THEN NetsAnswer(pcb_data_store[board_id]) ELSE {})

\* GET /board/{board_id}/net/{net_name}/components
get_net_components(board_id, net_name) ==
    BoardEndpoint("get_net_components", board_id, <<net_name>>,
                  IF board_id \in DOMAIN pcb_data_store
                  THEN ComponentsAnswer(pcb_data_store[board_id], net_name) ELSE {})

\* POST /board/{board_id}/calculate_trace
calculate_trace(board_id, request) ==
    BoardEndpoint("calculate_trace", board_id, request,
                  IF board_id \in DOMAIN pcb_data_store
                  THEN TraceAnswer(pcb_data_store[board_id], request) ELSE {})

\* POST /board/{board_id}/trace_path
main_get_trace_path(board_id, request) ==
    BoardEndpoint("trace_path", board_id, request,
                  IF board_id \in DOMAIN pcb_data_store
                  THEN TraceAnswer(pcb_data_store[board_id], request) ELSE {})

\* Depends(get_pcb_data_store): the dictionary of dependencies.py
get_pcb_data_store == shared_store

\* POST /board/{board_id}/analyze
analyze_pcb(board_id, query) ==
    /\ ncalls < MaxRequests
    /\ \E sample \in SampleFiles :
          Respond("analyze", <<board_id, query>>,
                  AnalyzeAnswer(DataFor(get_pcb_data_store, board_id, sample), query))
    /\ UNCHANGED server

Scheduled(call, task_id, board_id, query, due) ==
    [call |-> call, task_id |-> task_id, board_id |-> board_id, query |-> query, due |-> due]

\* POST /board/{board_id}/analyze/async
analyze_pcb_async(board_id, query) ==
    /\ ncalls < MaxRequests
    /\ active_tasks' = Put(active_tasks, <<board_id, now>>,
                           [status |-> "pending", board_id |-> board_id, query |-> query,
                            result |-> None, error |-> None, start_time |-> now])
    /\ background' = Append(background,
                            Scheduled("process_analysis_task", <<board_id, now>>,
                                      board_id, query, now))
    /\ Respond("analyze_async", <<board_id, query>>,
               Answer(Some([task_id |-> <<board_id, now>>, status |-> "pending"]), ""))
    /\ UNCHANGED <<pcb_data_store, shared_store, now>>

\* GET /board/analyze/task/{task_id}
get_task_status(task_id) ==
    /\ ncalls < MaxRequests
    /\ IF task_id \notin DOMAIN active_tasks
       THEN Respond("get_task_status", <<task_id>>, Answer(None, "404"))
       ELSE Respond("get_task_status", <<task_id>>,
                    Answer(Some([status |-> active_tasks[task_id].status,
                                 elapsed_time |-> now - active_tasks[task_id].start_time,
                                 result |-> IF active_tasks[task_id].status = "completed"
                                            THEN active_tasks[task_id].result ELSE None,
                                 error |-> IF active_tasks[task_id].status = "error"
                                           THEN active_tasks[task_id].error ELSE None]), ""))
    /\ UNCHANGED server

\* DELETE /board/analyze/task/{task_id}
cancel_task(task_id) ==
    /\ ncalls < MaxRequests
    /\ IF task_id \notin DOMAIN active_tasks
       THEN /\ Respond("cancel_task", <<task_id>>, Answer(None, "404"))
            /\ UNCHANGED active_tasks
       ELSE IF active_tasks[task_id].status \in {"completed", "error", "cancelled"}
       THEN /\ Respond("cancel_task", <<task_id>>,
                       Answer(Some([status |-> active_tasks[task_id].status,
                                    message |-> "already"]), ""))
            /\ UNCHANGED active_tasks
       ELSE /\ active_tasks' = [active_tasks EXCEPT
                                  ![task_id].status = "cancelled",
                                  ![task_id].error = Some("Task cancelled by user")]
            /\ Respond("cancel_task", <<task_id>>,
                       Answer(Some([status |-> "cancelled", message |-> "cancelled"]), ""))
    /\ UNCHANGED <<pcb_data_store, shared_store, background, now>>

RemoveAt(seq, i) == SubSeq(seq, 1, i - 1) \o SubSeq(seq, i + 1, Len(seq))

\* The task table after process_analysis_task has run for a task of the
\* table; the coroutine never awaits, so nothing runs in between.  The status
\* is "running" from its first statement on, so neither of its two tests for
\* "cancelled" succeeds.
Processed(task, found, query) ==
    IF IsNone(found)
    THEN [task EXCEPT !.status = "error", !.error = Some("PCB data not found")]
    ELSE [task EXCEPT !.status = "completed",
                      !.result = Some(process_query(Value(found), query))]

\* The background task of analyze_pcb_async runs; it ends by scheduling the
\* clean-up.  Without an entry for the task the first statement raises and so
\* does the handler of the exception.
process_analysis_task(i) ==
    /\ i \in DOMAIN background
    /\ background[i].call = "process_analysis_task"
    /\ IF background[i].task_id \in DOMAIN active_tasks
       THEN \E sample \in SampleFiles :
               active_tasks' =
                  [active_tasks EXCEPT
                     ![background[i].task_id] =
                        Processed(@, DataFor(get_pcb_data_store, background[i].board_id,
                                             sample),
                                  background[i].query)]
       ELSE UNCHANGED active_tasks
    /\ background' = Append(RemoveAt(background, i),
                            Scheduled("cleanup_task", background[i].task_id,
                                      background[i].board_id, background[i].query,
                                      now + CLEANUP_DELAY))
    /\ UNCHANGED <<pcb_data_store, shared_store, now, ret, ncalls>>
    /\ ServerFrame

\* cleanup_task wakes up when its delay has passed.
cleanup_task(i) ==
    /\ i \in DOMAIN background
    /\ background[i].call = "cleanup_task"
    /\ now' = Max2(now, background[i].due)
    /\ active_tasks' = [k \in DOMAIN active_tasks \ {background[i].task_id} |->
                          active_tasks[k]]
    /\ background' = RemoveAt(background, i)
    /\ UNCHANGED <<pcb_data_store, shared_store, ret, ncalls>>
    /\ ServerFrame

\* A second passes.
Tick ==
    /\ now < MaxTime
    /\ now' = now + 1
    /\ UNCHANGED <<pcb_data_store, shared_store, active_tasks, background, ret, ncalls>>
    /\ ServerFrame

NextServer ==
    \/ \E content \in {None} \cup {Some(data) : data \in UploadBoards} : upload_pcb(content)
    \/ \E board_id \in SessionIds : main_get_nets(board_id)
    \/ \E board_id \in SessionIds, net_name \in NetNames : get_net_components(board_id, net_name)
    \/ \E board_id \in SessionIds, request \in TraceRequests : calculate_trace(board_id, request)
    \/ \E board_id \in SessionIds, request \in TraceRequests :
         main_get_trace_path(board_id, request)
    \/ \E board_id \in SessionIds, query \in Queries : analyze_pcb(board_id, query)
    \/ \E board_id \in SessionIds, query \in Queries : analyze_pcb_async(board_id, query)
    \/ \E task_id \in SessionIds \X (0..MaxTime) : get_task_status(task_id)
    \/ \E task_id \in SessionIds \X (0..MaxTime) : cancel_task(task_id)
    \/ \E i \in 1..MaxRequests : process_analysis_task(i)
    \/ \E i \in 1..MaxRequests : cleanup_task(i)
    \/ Tick

SpecServer == InitServer /\ [][NextServer]_vars

\* ------------------------------------------- properties of nets and lengths
\* The pads of the extractor's board data that are on a net
PadsOnNet(net_name) ==
    {i \in DOMAIN PadsOfData(Value(pcb_data)) :
        PadsOfData(Value(pcb_data))[i].pad.netName = net_name}

\* C21: for every net get_nets returns, pad_count is the number of pads of the
\* board on that net and component_count the number of distinct components
\* with a pad on it, also when a component has pads on several nets.
C21_NetCountsAreExact ==
    ret.op = "get_nets" =>
        \A net_name \in DOMAIN Value(ret.result) :
           /\ Value(ret.result)[net_name].pad_count = Cardinality(PadsOnNet(net_name))
           /\ Value(ret.result)[net_name].component_count =
                 Cardinality({PadsOfData(Value(pcb_data))[i].comp.designator :
                                i \in PadsOnNet(net_name)})

\* get_nets has returned for a board on which a component has pads on two
\* nets.
C21_Witness ==
    /\ ret.op = "get_nets"
    /\ \E n1 \in DOMAIN Value(ret.result), n2 \in DOMAIN Value(ret.result) :
          /\ n1 # n2
          /\ \E i \in PadsOnNet(n1), j \in PadsOnNet(n2) :
                PadsOfData(Value(pcb_data))[i].comp = PadsOfData(Value(pcb_data))[j].comp

\* C22: every length_mm calculate_trace_lengths reports is the millimetre
\* value extract_traces_between_pads returned for that pair, and every pair
\* for which it returned a value is reported.
C22_LengthsAreTheExtractedLengths ==
    ret.op = "calculate_trace_lengths" =>
        LET found == SelectSeq(ret.returned, LAMBDA length : ~IsNone(length))
        IN /\ Len(Value(ret.result)) = Len(found)
           /\ \A i \in DOMAIN found : Value(ret.result)[i].length_mm = Value(found[i])

\* calculate_trace_lengths has reported a pair joined by copper.
C22_Witness ==
    /\ ret.op = "calculate_trace_lengths"
    /\ \E i \in DOMAIN ret.returned : ~IsNone(ret.returned[i]) /\ Value(ret.returned[i]) > 0
    /\ Value(ret.result) # <<>>

\* ----------------------------------------------------- properties of frames
\* C23: between two loads no query changes the objects, the pads or an
\* attribute of an object; a query changes the caches only.
C23_QueriesLeaveTheModelAlone ==
    [][ncalls' = ncalls + 1 => (objects' = objects /\ pads' = pads)]_vars

\* calculate_trace_impedance has returned a result for a path over a track
\* of the board.
C23_Witness ==
    /\ Impedance /\ ~IsNone(ret.result)
    /\ \E i \in DOMAIN Value(ret.result).segments, k \in DOMAIN objects :
          /\ objects[k].type = "Track"
          /\ objects[k].start = Value(ret.result).segments[i].segment.start
          /\ objects[k].end = Value(ret.result).segments[i].segment.end

\* ------------------------------------------------- properties of edge weights
\* The edges of a graph that join two Tracks or Arcs of net_objs.
LinearEdges(G, net_objs) ==
    {e \in G.edges : IsTrackOrArc(net_objs[e[1]]) /\ IsTrackOrArc(net_objs[e[2]])}

\* The last call built the tolerance graph of the net of its pads: the strategy
\* loop went on to build_bidirectional_graph, or get_trace_path of
\* src/trace_extractor.py looked its path up in it.
ToleranceGraphBuilt ==
    \/ /\ Computed
       /\ \E i \in DOMAIN ret.loop.tried : ret.loop.tried[i] = "build_bidirectional_graph"
    \/ /\ rev = "root" /\ ret.op = "get_trace_path" /\ ~IsNone(ret.result)
       /\ <<ret.args[1], ret.args[2]>> \in DOMAIN pad_cache
       /\ <<ret.args[3], ret.args[4]>> \in DOMAIN pad_cache

\* C24: in the tolerance graph an edge between two Tracks or Arcs weighs the
\* average of their two lengths, in millimetres.
C24_LinearEdgesWeighTheAverage ==
    ToleranceGraphBuilt =>
        \A e \in LinearEdges(build_bidirectional_graph(ArgNetObjs), ArgNetObjs) :
            2 * e[3] = (ArgNetObjs[e[1]].length + ArgNetObjs[e[2]].length) * MILS_TO_MM

\* The tolerance graph was built and joins two Tracks or Arcs of different
\* lengths.
C24_Witness ==
    /\ ToleranceGraphBuilt
    /\ \E e \in LinearEdges(build_bidirectional_graph(ArgNetObjs), ArgNetObjs) :
          ArgNetObjs[e[1]].length # ArgNetObjs[e[2]].length

\* The length of a Track or Arc in millimetres, never less than 0.00001 mm.
LengthWeight(o) == Max2(o.length * MILS_TO_MM, MAX_TRACK_WEIGHT)

\* The weight of the edge e of a graph over net_objs is the one stated for
\* the types of the two objects it joins.
WeighsAsStated(e, net_objs) ==
    LET o1 == net_objs[e[1]]
        o2 == net_objs[e[2]]
    IN /\ e[3] > 0
       /\ (IsPad(o1) /\ IsTrackOrArc(o2)) \/ (IsPad(o2) /\ IsTrackOrArc(o1))
             => e[3] = MAX_TRACK_WEIGHT
       /\ ~IsTrackOrArc(o1) /\ ~IsTrackOrArc(o2) => e[3] = DEFAULT_WEIGHT
       /\ IsVia(o1) /\ IsTrackOrArc(o2) => e[3] = LengthWeight(o2)
       /\ IsVia(o2) /\ IsTrackOrArc(o1) => e[3] = LengthWeight(o1)
       /\ IsTrackOrArc(o1) /\ IsTrackOrArc(o2)
             => e[3] \in {LengthWeight(o1), LengthWeight(o2)}

\* C25: in both graphs every edge weighs more than zero: 0.00001 mm between a
\* Pad and a Track or Arc, 0.0001 mm between Pads and Vias only, the Track's
\* or Arc's length between it and a Via, the length of one of the two between
\* two Tracks or Arcs, and in these two cases never less than 0.00001 mm.
C25_EveryEdgeWeighsAsStated ==
    /\ Computed =>
          \A e \in build_accurate_graph(ArgNetObjs).edges : WeighsAsStated(e, ArgNetObjs)
    /\ ToleranceGraphBuilt =>
          \A e \in build_bidirectional_graph(ArgNetObjs).edges : WeighsAsStated(e, ArgNetObjs)

\* The exact graph was built and joins two Tracks shorter than 0.00001 mm.
C25_Witness ==
    /\ Computed
    /\ \E e \in LinearEdges(build_accurate_graph(ArgNetObjs), ArgNetObjs) :
          /\ ArgNetObjs[e[1]].length * MILS_TO_MM < MAX_TRACK_WEIGHT
          /\ e[3] = MAX_TRACK_WEIGHT

\* Both graphs were built for a net with a Via: the edges at the Via and the
\* edges at a Pad are weighed.
C25_WitnessVia ==
    /\ Computed /\ ToleranceGraphBuilt
    /\ \E e \in build_bidirectional_graph(ArgNetObjs).edges :
          {ArgNetObjs[e[1]].type, ArgNetObjs[e[2]].type} \in {{"Via", "Track"}, {"Via", "Arc"}}
    /\ \E e \in build_accurate_graph(ArgNetObjs).edges :
          {ArgNetObjs[e[1]].type, ArgNetObjs[e[2]].type} = {"Pad", "Track"}

\* ------------------------------------------------------ properties of layers
\* C26: on a path extract_traces_between_pads accepts, each object and the
\* next share a layer, or one of the two is a via or a through-hole pad.
C26_PathsKeepToCompatibleLayers ==
    Computed /\ ~IsNone(ret.result) =>
        \A i \in 1..(Len(ret.loop.best_path) - 1) :
            LayersCompatible(get_layers(ret.loop.best_path[i]),
                             get_layers(ret.loop.best_path[i + 1]))

\* A path was accepted that goes through a via from one layer to another.
C26_Witness ==
    /\ Computed /\ ~IsNone(ret.result)
    /\ \E i \in DOMAIN ret.loop.best_path : IsVia(ret.loop.best_path[i])
    /\ \E i, j \in DOMAIN ret.loop.best_path :
          /\ IsTrackOrArc(ret.loop.best_path[i]) /\ IsTrackOrArc(ret.loop.best_path[j])
          /\ ret.loop.best_path[i].layer # ret.loop.best_path[j].layer

\* ------------------------------------------------ properties of path details
\* The elements get_trace_path lists for a path.
ElementsOfPath(path) ==
    IF rev = "root"
    THEN LET shown == SelectSeq(path, LAMBDA o : ~IsPad(o))
         IN [i \in DOMAIN shown |-> RootElement(shown[i])]
    ELSE [i \in DOMAIN path |-> BackendElement(i - 1, path[i])]

\* C27: get_trace_path reports path_exists true exactly when
\* extract_traces_between_pads returns a number for the same arguments, and
\* its elements are then those of the path that produced the number.
C27_PathExistsExactlyWithALength ==
    [][(ret'.op = "get_trace_path" /\ ncalls' = ncalls + 1) =>
         \E out \in extract_traces_between_pads(Self, ret'.args[1], ret'.args[2],
                                                ret'.args[3], ret'.args[4]) :
            /\ ret'.path_exists <=> ~IsNone(out.result)
            /\ (ret'.path_exists /\ out.computed)
                  => ret'.path_elements = ElementsOfPath(out.loop.best_path)]_vars

\* get_trace_path reported a path and listed a Via among its elements.
C27_Witness ==
    /\ ret.op = "get_trace_path"
    /\ ret.path_exists
    /\ \E i \in DOMAIN ret.path_elements : ret.path_elements[i].type = "Via"

\* --------------------------------------------- properties of track kinds
\* The layer number is the lowest or the highest of the stackup.
OutermostLayer(stackup, layer_number) ==
    /\ \E i \in DOMAIN stackup : stackup[i].layer_number = layer_number
    /\ \/ \A i \in DOMAIN stackup : stackup[i].layer_number >= layer_number
       \/ \A i \in DOMAIN stackup : stackup[i].layer_number <= layer_number

\* The impedance of a track that is microstrip exactly on an outermost layer.
ImpedanceByKind(track, stackup) ==
    IF OutermostLayer(stackup, track.layer)
    THEN calculate_microstrip_impedance(track, stackup)
    ELSE calculate_stripline_impedance(track, stackup)

\* C28: a Track is treated as microstrip exactly when its layer number is the
\* lowest or the highest of the stackup, and as stripline otherwise, by
\* calculate_trace_impedance and by get_path_impedance_profile, whatever the
\* layer numbers of the stackup.
C28_MicrostripExactlyOnOutermostLayers ==
    /\ (ret.op = "calculate_trace_impedance" /\ ~IsNone(ret.result)) =>
          \A i \in DOMAIN Value(ret.result).segments :
             Value(ret.result).segments[i].type = "microstrip"
                <=> OutermostLayer(default_layers, Value(ret.result).segments[i].layer)
    /\ (ret.op = "get_path_impedance_profile" /\ ~IsNone(ret.result)) =>
          \A i \in DOMAIN Value(ret.result) :
             Value(ret.result)[i].impedance
                = ImpedanceByKind(objects[ProfileTrack(objects, Value(ret.result)[i].segment)],
                                  PCBStackup(ret.args[5]))

\* get_path_impedance_profile returned the impedance of a track for a stackup
\* whose layers are not numbered from 1, on which the two formulas differ.
C28_Witness ==
    /\ ret.op = "get_path_impedance_profile" /\ ~IsNone(ret.result)
    /\ ret.args[5] = ZeroBasedLayers
    /\ \E i \in DOMAIN Value(ret.result) :
          LET track == objects[ProfileTrack(objects, Value(ret.result)[i].segment)]
          IN calculate_microstrip_impedance(track, PCBStackup(ret.args[5]))
                # calculate_stripline_impedance(track, PCBStackup(ret.args[5]))

\* ------------------------------------------ properties of the web application
\* C29: once cancel_task has set the status of a task to "cancelled", the
\* status never changes again and no result is stored for the task.
C29_CancelledStaysCancelled ==
    [][\A task_id \in DOMAIN active_tasks :
          (active_tasks[task_id].status = "cancelled" /\ task_id \in DOMAIN active_tasks')
             => /\ active_tasks'[task_id].status = "cancelled"
                /\ IsNone(active_tasks'[task_id].result)]_vars

\* cancel_task has just cancelled a pending task whose background task has not
\* run yet.
C29_Witness ==
    /\ ret.op = "cancel_task" /\ ret.raised = ""
    /\ Value(ret.result).message = "cancelled"
    /\ active_tasks[ret.args[1]].status = "cancelled"
    /\ \E i \in DOMAIN background :
          /\ background[i].call = "process_analysis_task"
          /\ background[i].task_id = ret.args[1]

\* What an endpoint answers when it works on the data of a board.
AnswersFor(op, args, data) ==
    CASE op = "get_nets" -> NetsAnswer(data)
      [] op = "get_net_components" -> ComponentsAnswer(data, args[2])
      [] op \in {"calculate_trace", "trace_path"} -> TraceAnswer(data, SubSeq(args, 2, 5))
      [] op = "analyze" -> {AnalyzeAnswer(Some(data), args[2])}

\* C30: a request to a board endpoint with the session id of an uploaded
\* board is answered from the uploaded data, and an analysis task for that
\* id, when it runs, analyses the uploaded data.
C30_EndpointsWorkOnTheUpload ==
    [][/\ (/\ ncalls' = ncalls + 1
           /\ ret'.op \in {"get_nets", "get_net_components", "calculate_trace",
                           "trace_path", "analyze"}
           /\ ret'.args[1] \in DOMAIN pcb_data_store)
          => Answer(ret'.result, ret'.raised)
                \in AnswersFor(ret'.op, ret'.args, pcb_data_store[ret'.args[1]])
       /\ \A i \in DOMAIN background :
             (/\ background[i].call = "process_analysis_task"
              /\ background' = Append(RemoveAt(background, i), background'[Len(background)])
              /\ background'[Len(background)].call = "cleanup_task"
              /\ background[i].task_id \in DOMAIN active_tasks
              /\ active_tasks' # active_tasks
              /\ background[i].board_id \in DOMAIN pcb_data_store)
             => active_tasks'[background[i].task_id].result
                   = Some(process_query(pcb_data_store[background[i].board_id],
                                        background[i].query))]_vars

\* The analysis of an uploaded board was asked for with its session id.
C30_Witness ==
    /\ ret.op = "analyze"
    /\ ret.args[1] \in DOMAIN pcb_data_store
    /\ ret.raised = ""

====
